---- MODULE Spec2Model ----
(***************************************************************************)
(* The leyline lexer (src/leyline/lexer.py) as a state machine.            *)
(*                                                                         *)
(* A source text is a sequence of one-character strings.  Positions are    *)
(* 0-based as in the Python source; Slice, RFind and the Match operators   *)
(* follow Python's slicing and the regular expressions of the rules.       *)
(* The scanner proper (ply.lex's token()) tries the rule functions in the  *)
(* order they are written in the class; the first one that matches wins.   *)
(***************************************************************************)
EXTENDS Integers, Sequences, FiniteSets, TLC

VARIABLES
    inp,         \* Lexer.inp: the source text handed to input()
    lexpos,      \* Lexer.lexer.lexpos: the scanner's cursor
    lineno,      \* Lexer.lexer.lineno
    indents,     \* Lexer.indents: the indentation stack
    queue,       \* Lexer.queue: the pending-token deque
    last,        \* Lexer.last
    beforelast,  \* Lexer.beforelast
    status,      \* "new" (constructed), "lexing", "done" (token() gave None), "error"
    err,         \* the SyntaxError raised by _lexer_error, NoErr when none
    out,         \* the tokens token() has returned so far, in order
    scanned,     \* history: one entry per rule function the scanner has run
    prior,       \* history: what the call before this one left in the lexer
    calls,       \* the calls of the module-level parse() that share the lexer
    prod,        \* the grammar rule function the parser ran last: p[1..] and p[0]
    yacc,        \* ply.yacc's parse loop: its stack, the tokens taken, the nodes built
    pair,        \* two nodes made by Node.__init__ and what == gave for them
    walk,        \* a call of Visitor.visit: the visitor, the node, the handlers called, the outcome
    trav,        \* ContextVisitors on a tree: the contexts, what was evaluated, what was rendered
    evis,        \* an EventsVisitor on a tree: its events and the nodes it has visited
    assets       \* an AssetsCache, its cache file and the files of its directory

\* The lexer and its histories.
lexvars == <<inp, lexpos, lineno, indents, queue, last, beforelast, status, err,
             out, scanned, prior>>

\* What lives outside the lexer and the rule functions of lists and tables.
heap == <<yacc, pair, walk, trav, evis, assets>>

\* What a step on one of them leaves alone.
but_yacc == <<lexvars, calls, prod, pair, walk, trav, evis, assets>>
but_pair == <<lexvars, calls, prod, yacc, walk, trav, evis, assets>>
but_walk == <<lexvars, calls, prod, yacc, pair, trav, evis, assets>>
but_trav == <<lexvars, calls, prod, yacc, pair, walk, evis, assets>>
but_evis == <<lexvars, calls, prod, yacc, pair, walk, trav, assets>>
but_assets == <<lexvars, calls, prod, yacc, pair, walk, trav, evis>>

\* What the methods of the lexer leave alone.
others == <<calls, prod, heap>>

vars == <<lexvars, others>>

----------------------------------------------------------------------------
(* Bounds of the model.                                                    *)

\* An input is the concatenation of at most MaxChunks chunks.
MaxChunks == 3

\* The longest text, in chunks, of a call that shares the lexer.
MaxConcChunks == 2

\* The longest list, in items, handed to the rule functions of lists.
MaxItems == 3

\* The most rows of a table and the most cells of a row.
MaxRows == 2
MaxCells == 2

\* The most lines of a table's metadata text.
MaxInfoLines == 2

\* The number of pieces a header text is built from.
MaxHeadChunks == 4

\* The number of pieces after the header of a with block.
MaxWithChunks == 3

NL == "\n"
TAB == "\t"
\* The backquote character, which a TLA+ string cannot hold.
BQ == "BACKQUOTE"

\* The pieces inputs are built from.  Their characters are the alphabet of
\* the model: newline, space, tab, dash, digit 1, dot, letter a, hash,
\* backquote and dollar.  "- - " is two bullets on one line.
Chunks ==
    { <<NL>>, <<" ">>, <<TAB>>, <<"a">>,
      <<"-", " ">>, <<"-", " ", "-", " ">>, <<"1", ".", " ">>,
      <<"#">>, <<"#", "#", "#">>,
      <<BQ, BQ, BQ>>, <<"$", "$", "$">> }

RECURSIVE Concat(_)
Concat(ss) == IF ss = <<>> THEN <<>> ELSE Head(ss) \o Concat(Tail(ss))

Inputs ==
    { Concat(cs) : cs \in UNION { [1..n -> Chunks] : n \in 0..MaxChunks } }

----------------------------------------------------------------------------
(* Python helpers.                                                         *)

Min(S) == CHOOSE x \in S : \A y \in S : x <= y
Max(S) == CHOOSE x \in S : \A y \in S : x >= y

\* s[i:j]
Slice(s, i, j) ==
    LET jj == IF j > Len(s) THEN Len(s) ELSE j
    IN  IF i >= jj THEN <<>> ELSE SubSeq(s, i + 1, jj)

\* s[p], "" past the end
CharAt(s, p) == IF p >= 0 /\ p < Len(s) THEN s[p + 1] ELSE ""

\* s.rfind(c, 0, end)
RFind(s, c, end) ==
    LET I == { k \in 0..(end - 1) : CharAt(s, k) = c }
    IN  IF I = {} THEN -1 ELSE Max(I)

\* s.count(c)
Count(s, c) == Cardinality({ k \in 1..Len(s) : s[k] = c })

\* ' ' * n
Spaces(n) == [k \in 1..n |-> " "]

Whitespace == { " ", TAB, NL, "\r", "\f" }

\* s.strip()
Strip(s) ==
    LET I == { k \in 1..Len(s) : s[k] \notin Whitespace }
    IN  IF I = {} THEN <<>> ELSE SubSeq(s, Min(I), Max(I))

\* s.startswith(pre)
StartsWith(s, pre) == Len(pre) <= Len(s) /\ SubSeq(s, 1, Len(pre)) = pre

\* s.endswith('\n')
EndsWithNL(s) == Len(s) > 0 /\ s[Len(s)] = NL

Digits == { "0", "1", "2", "3", "4", "5", "6", "7", "8", "9" }

DigitVal(c) ==
    CASE c = "0" -> 0 [] c = "1" -> 1 [] c = "2" -> 2 [] c = "3" -> 3
      [] c = "4" -> 4 [] c = "5" -> 5 [] c = "6" -> 6 [] c = "7" -> 7
      [] c = "8" -> 8 [] c = "9" -> 9

\* int(s) for a string of digits
RECURSIVE PyInt(_)
PyInt(s) ==
    IF s = <<>> THEN 0
    ELSE 10 * PyInt(SubSeq(s, 1, Len(s) - 1)) + DigitVal(s[Len(s)])

\* The first position q >= p whose character is not in S (Len(s) if none):
\* where a greedy [S]* started at p stops.
SpanWhile(s, p, S) ==
    Min({ q \in p..Len(s) : q = Len(s) \/ s[q + 1] \notin S })

\* The first position q >= p whose character is in S, -1 if none.
FindFirst(s, p, S) ==
    LET I == { q \in p..(Len(s) - 1) : s[q + 1] \in S }
    IN  IF I = {} THEN -1 ELSE Min(I)

\* RE_SPACES.split(s): the pieces between the runs of blanks with, the
\* pattern being one capturing group, each run between its neighbours.
RECURSIVE re_spaces_split(_)
re_spaces_split(s) ==
    LET q == FindFirst(s, 0, {" "})
        e == SpanWhile(s, q, {" "})
    IN  IF q = -1 THEN <<s>>
        ELSE <<Slice(s, 0, q), Slice(s, q, e)>> \o re_spaces_split(Slice(s, e, Len(s)))

\* subtoks[::2] and subtoks[1::2]
EvenItems(l) == [k \in 1..((Len(l) + 1) \div 2) |-> l[2 * k - 1]]
OddItems(l) == [k \in 1..(Len(l) \div 2) |-> l[2 * k]]

----------------------------------------------------------------------------
(* The rules' regular expressions.  Each Match operator gives the position *)
(* just past the match of the rule's pattern at position p of s, or -1     *)
(* when the pattern does not match there.  The escape alternatives of the  *)
(* patterns (a backslash and the character after it) need a backslash,     *)
(* which no chunk holds; a backslash stops the match here.                 *)

\* t_MULTILINECOMMENT: three hashes, characters other than hash, three
\* hashes.  The pattern's inner group, (\\.|#(?!###)) followed by [^[#]\\]*,
\* needs a literal backslash after each lone hash, so without backslashes a
\* hash inside the body ends the match or defeats it.
MatchMULTILINECOMMENT(s, p) ==
    IF Slice(s, p, p + 3) # <<"#", "#", "#">> THEN -1
    ELSE LET q == FindFirst(s, p + 3, {"#", "\\"})
         IN  IF q # -1 /\ Slice(s, q, q + 3) = <<"#", "#", "#">>
             THEN q + 3 ELSE -1

\* t_CODEBLOCK and t_MULTILINEMATH: three delimiters d, a body in which a
\* d is allowed only when it is not followed by two more, three delimiters.
\* The match therefore ends at the first d of the body that starts ddd.
MatchFenced(s, p, d) ==
    IF Slice(s, p, p + 3) # <<d, d, d>> THEN -1
    ELSE LET C == { q \in (p + 3)..(Len(s) - 3) :
                      /\ Slice(s, q, q + 3) = <<d, d, d>>
                      /\ FindFirst(Slice(s, p + 3, q), 0, {"\\"}) = -1 }
         IN  IF C = {} THEN -1 ELSE Min(C) + 3

\* t_COMMENT: a hash and the rest of the line.
MatchCOMMENT(s, p) ==
    IF CharAt(s, p) # "#" THEN -1
    ELSE SpanWhile(s, p + 1, { c \in { s[k] : k \in 1..Len(s) } : c \notin {"\r", NL} })

\* t_INLINECODE and t_INLINEMATH: d, characters other than d and newline, d.
MatchInline(s, p, d) ==
    IF CharAt(s, p) # d THEN -1
    ELSE LET q == FindFirst(s, p + 1, {d, NL, "\\"})
         IN  IF q # -1 /\ s[q + 1] = d THEN q + 1 ELSE -1

\* t_DOUBLEDASH
MatchDOUBLEDASH(s, p) ==
    IF CharAt(s, p) = "-" /\ CharAt(s, p + 1) = "-" THEN p + 2 ELSE -1

\* t_DOUBLESTAR
MatchDOUBLESTAR(s, p) ==
    IF CharAt(s, p) = "*" /\ CharAt(s, p + 1) = "*" THEN p + 2 ELSE -1

\* t_DOUBLETILDE
MatchDOUBLETILDE(s, p) ==
    IF CharAt(s, p) = "~" /\ CharAt(s, p + 1) = "~" THEN p + 2 ELSE -1

\* The characters of [A-Za-z_] and [A-Za-z0-9_] that the model's texts hold.
NameStart == { "a", "b", "d", "e", "h", "i", "n", "r", "t", "w", "_" }
NameChars == NameStart \cup Digits

\* One group " +[A-Za-z_][A-Za-z0-9_]*" of t_REND and t_WITH at q: the
\* position past the name, -1 when there is no blank or no name.
MatchName(s, q) ==
    LET e == SpanWhile(s, q, {" "})
    IN  IF e = q \/ CharAt(s, e) \notin NameStart THEN -1
        ELSE SpanWhile(s, e, NameChars)

\* (?: +name)+:: from q on, n groups being matched already.  Blanks, name
\* characters and colons are disjoint, so the greedy match is the only one.
RECURSIVE MatchNames(_, _, _)
MatchNames(s, q, n) ==
    LET g == MatchName(s, q)
    IN  IF g # -1 THEN MatchNames(s, g, n + 1)
        ELSE IF n > 0 /\ Slice(s, q, q + 2) = <<":", ":">> THEN q + 2
        ELSE -1

\* t_REND: rend(?: +[A-Za-z_][A-Za-z0-9_]*)+::
MatchREND(s, p) ==
    IF Slice(s, p, p + 4) # <<"r", "e", "n", "d">> THEN -1
    ELSE MatchNames(s, p + 4, 0)

\* t_WITH: with(| +[A-Za-z_][A-Za-z0-9_]*)::
MatchWITH(s, p) ==
    IF Slice(s, p, p + 4) # <<"w", "i", "t", "h">> THEN -1
    ELSE IF Slice(s, p + 4, p + 6) = <<":", ":">> THEN p + 6
    ELSE LET g == MatchName(s, p + 4)
         IN  IF g # -1 /\ Slice(s, g, g + 2) = <<":", ":">> THEN g + 2 ELSE -1

\* One bullet-and-space group, ([-*]|\d+\.) followed by a space: the
\* pattern of t_LISTBULLET and of RE_LISTBULLET.
MatchBullet(s, p) ==
    IF CharAt(s, p) \in {"-", "*"}
    THEN IF CharAt(s, p + 1) = " " THEN p + 2 ELSE -1
    ELSE IF CharAt(s, p) \in Digits
    THEN LET q == SpanWhile(s, p, Digits)
         IN  IF CharAt(s, q) = "." /\ CharAt(s, q + 1) = " " THEN q + 2 ELSE -1
    ELSE -1

\* t_INDENT: \n+[ \t]*
MatchINDENT(s, p) ==
    IF CharAt(s, p) # NL THEN -1
    ELSE SpanWhile(s, SpanWhile(s, p, {NL}), {" ", TAB})

\* Lexer.text_breaks: the fixed characters and the first letters of the
\* reserved words figure, rend, table, with.
text_breaks ==
    { "-", NL, "#", BQ, "$", "{", "}", "%", "*", "~", "_", "^", ":", " ",
      "f", "r", "t", "w" }

\* t_UNBREAKTEXT: one character of text_breaks.
MatchUNBREAKTEXT(s, p) ==
    IF CharAt(s, p) \in text_breaks THEN p + 1 ELSE -1

\* t_PLAINTEXT: one or more characters outside text_breaks.
MatchPLAINTEXT(s, p) ==
    IF p >= Len(s) \/ CharAt(s, p) \in text_breaks THEN -1
    ELSE SpanWhile(s, p, { c \in { s[k] : k \in 1..Len(s) } : c \notin text_breaks })

\* RE_BULLETS.match(pre): optional blanks and tabs, then one or more
\* bullet-and-space groups, matched at the START of pre (re.match does not
\* require the match to reach the end of pre).
ReBulletsMatch(pre) == MatchBullet(pre, SpanWhile(pre, 0, {" ", TAB})) # -1

\* The length of RE_BULLETS' group 2 on pre: the last repetition of the
\* bullet-and-space group, the groups being taken greedily from q on.
RECURSIVE ReBulletsGroup2Len(_, _)
ReBulletsGroup2Len(pre, q) ==
    LET e == MatchBullet(pre, q)
    IN  IF MatchBullet(pre, e) = -1 THEN e - q ELSE ReBulletsGroup2Len(pre, e)

\* The master pattern of the scanner: the rule functions in the order of
\* the class body; the first whose pattern matches at p is taken.  The
\* rules left out (t_URL, the brace, star, tilde, underscore and caret
\* delimiters, t_TABLE, t_FIGURE) start with or need a character that no
\* chunk holds, so they match nowhere in the texts of the model.
RuleOrder ==
    << "MULTILINECOMMENT", "CODEBLOCK", "MULTILINEMATH", "COMMENT",
       "INLINECODE", "INLINEMATH", "DOUBLEDASH", "DOUBLESTAR", "DOUBLETILDE",
       "REND", "WITH",
       "LISTBULLET", "INDENT", "UNBREAKTEXT", "PLAINTEXT" >>

RuleMatch(rule, s, p) ==
    CASE rule = "MULTILINECOMMENT" -> MatchMULTILINECOMMENT(s, p)
      [] rule = "CODEBLOCK"        -> MatchFenced(s, p, BQ)
      [] rule = "MULTILINEMATH"    -> MatchFenced(s, p, "$")
      [] rule = "COMMENT"          -> MatchCOMMENT(s, p)
      [] rule = "INLINECODE"       -> MatchInline(s, p, BQ)
      [] rule = "INLINEMATH"       -> MatchInline(s, p, "$")
      [] rule = "DOUBLEDASH"       -> MatchDOUBLEDASH(s, p)
      [] rule = "DOUBLESTAR"       -> MatchDOUBLESTAR(s, p)
      [] rule = "DOUBLETILDE"      -> MatchDOUBLETILDE(s, p)
      [] rule = "REND"             -> MatchREND(s, p)
      [] rule = "WITH"             -> MatchWITH(s, p)
      [] rule = "LISTBULLET"       -> MatchBullet(s, p)
      [] rule = "INDENT"           -> MatchINDENT(s, p)
      [] rule = "UNBREAKTEXT"      -> MatchUNBREAKTEXT(s, p)
      [] rule = "PLAINTEXT"        -> MatchPLAINTEXT(s, p)

\* The rule the scanner takes at p, "" when none matches (t_error).
FirstRule(s, p) ==
    LET I == { k \in 1..Len(RuleOrder) : RuleMatch(RuleOrder[k], s, p) # -1 }
    IN  IF I = {} THEN "" ELSE RuleOrder[Min(I)]

----------------------------------------------------------------------------
(* Tokens and the rule functions.                                          *)
(*                                                                         *)
(* A token is a record of ply's LexToken attributes.  A rule function      *)
(* takes the token t the scanner made for the match (type = the rule,      *)
(* value = the matched text, lineno = the scanner's line, lexpos = where   *)
(* the match starts) and the lexer state L after the scanner moved its     *)
(* cursor past the match; it gives [tok, L, err]: the token it returns,    *)
(* the lexer state it leaves, and the error it raises (NoErr when none).   *)
(* column 0 stands for a token object on which no column was ever set.     *)

None == [type |-> "None"]
NoErr == [msg |-> ""]

Tok(type, value, line, column, pos) ==
    [type |-> type, value |-> value, lineno |-> line, column |-> column,
     lexpos |-> pos]

Ret(tok, L) == [tok |-> tok, L |-> L, err |-> NoErr]

\* Lexer._set_column
ColumnOf(p) == p - RFind(inp, NL, p)

\* Lexer._lexer_error: raises SyntaxError located at the token.
LexerError(t, L, msg) ==
    [tok |-> None, L |-> L,
     err |-> [msg |-> msg, lineno |-> t.lineno, column |-> t.column]]

Top(stack) == stack[Len(stack)]
Pop(stack) == SubSeq(stack, 1, Len(stack) - 1)

\* value[3:-3] of the three fenced rules, value[1:-1] of the inline ones
Inner(v, n) == Slice(v, n, Len(v) - n)

t_MULTILINECOMMENT(t, L) ==
    Ret([t EXCEPT !.column = ColumnOf(t.lexpos), !.value = Inner(t.value, 3)],
        [L EXCEPT !.lineno = L.lineno + Count(t.value, NL)])

\* The value is the text between the fences; its split into language and
\* dedented block is not carried by the model.
t_CODEBLOCK(t, L) ==
    Ret([t EXCEPT !.column = ColumnOf(t.lexpos), !.value = Inner(t.value, 3)],
        [L EXCEPT !.lineno = L.lineno + Count(t.value, NL)])

t_MULTILINEMATH(t, L) ==
    Ret([t EXCEPT !.column = ColumnOf(t.lexpos), !.value = Inner(t.value, 3)],
        [L EXCEPT !.lineno = L.lineno + Count(t.value, NL)])

t_COMMENT(t, L) ==
    Ret([t EXCEPT !.column = ColumnOf(t.lexpos),
                  !.value = Strip(Slice(t.value, 1, Len(t.value)))], L)

t_INLINECODE(t, L) ==
    Ret([t EXCEPT !.column = ColumnOf(t.lexpos), !.value = Inner(t.value, 1)], L)

t_INLINEMATH(t, L) ==
    Ret([t EXCEPT !.column = ColumnOf(t.lexpos), !.value = Inner(t.value, 1)], L)

t_DOUBLEDASH(t, L) == Ret([t EXCEPT !.column = ColumnOf(t.lexpos)], L)
t_DOUBLESTAR(t, L) == Ret([t EXCEPT !.column = ColumnOf(t.lexpos)], L)
t_DOUBLETILDE(t, L) == Ret([t EXCEPT !.column = ColumnOf(t.lexpos)], L)

\* t_REND checking the separator before the first target only.
t_REND_FirstSeparator(t, L) ==
    LET t1      == [t EXCEPT !.column = ColumnOf(t.lexpos)]
        subtoks == Tail(re_spaces_split(Slice(t.value, 4, Len(t.value) - 2)))
    IN  IF subtoks[1] # <<" ">>
        THEN LexerError(t1, L, "render targets must be separated by a single space")
        ELSE Ret([t1 EXCEPT !.value =
                     { OddItems(subtoks)[k] : k \in 1..Len(OddItems(subtoks)) }], L)

\* t_REND: the header's text between "rend" and "::" is split at its runs
\* of blanks; every run must be one blank; the value is set() of the names.
t_REND(t, L) ==
    LET t1      == [t EXCEPT !.column = ColumnOf(t.lexpos)]
        subtoks == Tail(re_spaces_split(Slice(t.value, 4, Len(t.value) - 2)))
        spaces  == EvenItems(subtoks)
    IN  IF \E k \in 1..Len(spaces) : spaces[k] # <<" ">>
        THEN LexerError(t1, L, "render targets must be separated by a single space")
        ELSE Ret([t1 EXCEPT !.value =
                     { OddItems(subtoks)[k] : k \in 1..Len(OddItems(subtoks)) }], L)

\* t_WITH: an empty context is kept; otherwise the run of blanks before
\* the name must be one blank and the value is the name.
t_WITH(t, L) ==
    LET t1      == [t EXCEPT !.column = ColumnOf(t.lexpos)]
        ctx     == Slice(t.value, 4, Len(t.value) - 2)
        subtoks == Tail(re_spaces_split(ctx))
    IN  IF ctx = <<>> THEN Ret([t1 EXCEPT !.value = ctx], L)
        ELSE IF subtoks[1] # <<" ">>
        THEN LexerError(t1, L, "with context must be separated by a single space")
        ELSE Ret([t1 EXCEPT !.value = subtoks[2]], L)

\* t_LISTBULLET with the level widened by the bullet without its space.
t_LISTBULLET_BulletWidth(t, L) ==
    LET col    == ColumnOf(t.lexpos)
        toklen == Len(t.value)
        i      == RFind(inp, NL, t.lexpos) + 1
        j      == t.lexpos + toklen + 1
        pre    == Slice(inp, i, j)
        text   == Strip(t.value)
        bullet == IF text[Len(text)] = "."
                  THEN PyInt(SubSeq(text, 1, Len(text) - 1)) ELSE text
        indent == Top(L.indents) \o Spaces(Len(text))
        u      == Tok("INDENT", indent, t.lineno, col, t.lexpos)
    IN  IF ~ReBulletsMatch(pre)
        THEN \* not a real list bullet: text instead
             Ret([t EXCEPT !.column = col, !.type = "PLAINTEXT"], L)
        ELSE Ret([t EXCEPT !.column = col, !.value = bullet],
                 [L EXCEPT !.queue = Append(L.queue, u),
                           !.indents = Append(L.indents, indent)])

t_LISTBULLET(t, L) ==
    LET col    == ColumnOf(t.lexpos)
        toklen == Len(t.value)
        i      == RFind(inp, NL, t.lexpos) + 1
        j      == t.lexpos + toklen + 1
        pre    == Slice(inp, i, j)
        text   == Strip(t.value)
        bullet == IF text[Len(text)] = "."
                  THEN PyInt(SubSeq(text, 1, Len(text) - 1)) ELSE text
        indent == Top(L.indents) \o Spaces(toklen)
        u      == Tok("INDENT", indent, t.lineno, col, t.lexpos)
    IN  IF ~ReBulletsMatch(pre)
        THEN \* not a real list bullet: text instead
             Ret([t EXCEPT !.column = col, !.type = "PLAINTEXT"], L)
        ELSE Ret([t EXCEPT !.column = col, !.value = bullet],
                 [L EXCEPT !.queue = Append(L.queue, u),
                           !.indents = Append(L.indents, indent)])

\* The while loop of t_INDENT: pops the levels that still strictly extend
\* i, queueing one DEDENT for each.  S is [indents, queue].
RECURSIVE PopDedents(_, _, _)
PopDedents(i, t, S) ==
    LET lst == Top(S.indents)
    IN  IF Len(i) < Len(lst) /\ StartsWith(lst, i)
        THEN PopDedents(i, t,
                 [indents |-> Pop(S.indents),
                  queue   |-> Append(S.queue,
                                 Tok("DEDENT", lst, t.lineno, 0, t.lexpos))])
        ELSE S

\* t_INDENT, i == last: the run is basically text.  t is the scanner's
\* token, L1 the lexer state with the lines counted.
IndentText_NotRetagged(t, L1) == Ret([t EXCEPT !.column = ColumnOf(t.lexpos)], L1)

IndentText(t, L1) ==
    Ret([t EXCEPT !.column = ColumnOf(t.lexpos), !.type = "PLAINTEXT"], L1)

\* One level pushed and one INDENT produced for each character by which i
\* is longer than the top.
IndentPush_PerCharacter(t1, L1, i) ==
    LET d      == Len(Top(L1.indents))
        levels == [j \in 1..(Len(i) - d) |-> SubSeq(i, 1, d + j)]
    IN  Ret([t1 EXCEPT !.value = levels[1]],
            [L1 EXCEPT !.indents = L1.indents \o levels,
                       !.queue = L1.queue \o
                           [j \in 1..(Len(levels) - 1) |->
                               [t1 EXCEPT !.value = levels[j + 1]]]])

\* t_INDENT, i strictly extends last: push i, return the INDENT.  t1 is the
\* token with its line and column set.
IndentPush(t1, L1, i) ==
    Ret([t1 EXCEPT !.value = i], [L1 EXCEPT !.indents = Append(L1.indents, i)])

\* t_INDENT, last strictly extends i: pop, return the first DEDENT and
\* queue the others.
IndentPop(t1, L1, i) ==
    LET S == PopDedents(i, t1, [indents |-> Pop(L1.indents), queue |-> L1.queue])
    IN  Ret([t1 EXCEPT !.value = Top(L1.indents), !.type = "DEDENT"],
            [L1 EXCEPT !.indents = S.indents, !.queue = S.queue])

\* The cases of t_INDENT for the prefix i and the stack top lst.
IndentCases(t, t1, L1, i, lst) ==
    IF i = lst THEN IndentText(t, L1)
    ELSE IF Len(i) > Len(lst) /\ StartsWith(i, lst) THEN IndentPush(t1, L1, i)
    ELSE IF Len(i) < Len(lst) /\ StartsWith(lst, i) THEN IndentPop(t1, L1, i)
    ELSE LexerError(t1, L1, "Indentation level doesn't match")

t_INDENT(t, L) ==
    IndentCases(t,
                [t EXCEPT !.lineno = L.lineno + Count(t.value, NL), !.column = 1],
                [L EXCEPT !.lineno = L.lineno + Count(t.value, NL)],
                Slice(t.value, Count(t.value, NL), Len(t.value)),
                Top(L.indents))

\* The nested-list branch is kept as written, though t_LISTBULLET, which
\* comes first in the class, takes every position where RE_LISTBULLET
\* matches at a dash.
t_UNBREAKTEXT(t, L) ==
    LET col    == ColumnOf(t.lexpos)
        t1     == [t EXCEPT !.column = col, !.type = "PLAINTEXT"]
        pre    == Slice(inp, RFind(inp, NL, t.lexpos) + 1, t.lexpos)
        indent == Top(L.indents)
                    \o Spaces(ReBulletsGroup2Len(pre, SpanWhile(pre, 0, {" ", TAB})))
    IN  IF MatchBullet(inp, t.lexpos) = -1 THEN Ret(t1, L)
        ELSE IF ~ReBulletsMatch(pre) THEN Ret(t1, L)
        ELSE Ret(Tok("INDENT", indent, t.lineno, col, t.lexpos),
                 [L EXCEPT !.indents = Append(L.indents, indent),
                           !.queue = Append(L.queue, [t1 EXCEPT !.type = "LISTBULLET"]),
                           !.lexpos = L.lexpos + 1])

t_PLAINTEXT(t, L) ==
    Ret([t EXCEPT !.column = ColumnOf(t.lexpos)],
        [L EXCEPT !.lineno = L.lineno + Count(t.value, NL)])

\* The while loop of t_eof: one DEDENT per level above the first.
RECURSIVE EofDedents(_, _, _)
EofDedents_ToEmpty(line, pos, S) ==
    [indents |-> <<>>,
     queue   |-> S.queue \o
                 [j \in 1..Len(S.indents) |->
                    Tok("DEDENT", S.indents[Len(S.indents) + 1 - j], line, 1, pos)]]
EofDedents(line, pos, S) ==
    IF Len(S.indents) > 1
    THEN EofDedents(line, pos,
             [indents |-> Pop(S.indents),
              queue   |-> Append(S.queue,
                             Tok("DEDENT", Top(S.indents), line, 1, pos))])
    ELSE S

\* t_eof without its flush: the end of the text reported at once.
t_eof_NoFlush(t, L) == Ret(None, L)

\* t_eof flushing only a text that ends with a newline.
t_eof_NeedsFinalNewline(t, L) ==
    IF Len(L.indents) = 1 \/ ~EndsWithNL(inp) THEN Ret(None, L)
    ELSE LET S == EofDedents(t.lineno, t.lexpos,
                             [indents |-> L.indents, queue |-> L.queue])
         IN  Ret(Head(S.queue),
                 [L EXCEPT !.indents = S.indents, !.queue = Tail(S.queue)])

\* t_eof reporting the end at once and leaving its DEDENTs in the queue.
t_eof_QueuesAfterEnd(t, L) ==
    IF Len(L.indents) = 1 THEN Ret(None, L)
    ELSE LET S == EofDedents(t.lineno, t.lexpos,
                             [indents |-> L.indents, queue |-> L.queue])
         IN  Ret(None, [L EXCEPT !.indents = S.indents, !.queue = S.queue])

\* t_eof ends with "return self.token()": token() takes the head of the
\* queue just filled, a DEDENT, which _next_token passes through untouched;
\* the last/beforelast it assigns are assigned again by the token() call
\* that is under way, with the same beforelast.
t_eof(t, L) ==
    IF Len(L.indents) = 1 THEN Ret(None, L)
    ELSE LET line == IF EndsWithNL(inp) THEN t.lineno ELSE t.lineno + 1
             S    == EofDedents(line, t.lexpos,
                                [indents |-> L.indents, queue |-> L.queue])
         IN  Ret(Head(S.queue),
                 [L EXCEPT !.indents = S.indents, !.queue = Tail(S.queue)])

----------------------------------------------------------------------------
(* The scanner proper and Lexer._next_token.                               *)

\* The rule function of a rule.
RuleFunction(rule, t, L) ==
    CASE rule = "MULTILINECOMMENT" -> t_MULTILINECOMMENT(t, L)
      [] rule = "CODEBLOCK"        -> t_CODEBLOCK(t, L)
      [] rule = "MULTILINEMATH"    -> t_MULTILINEMATH(t, L)
      [] rule = "COMMENT"          -> t_COMMENT(t, L)
      [] rule = "INLINECODE"       -> t_INLINECODE(t, L)
      [] rule = "INLINEMATH"       -> t_INLINEMATH(t, L)
      [] rule = "DOUBLEDASH"       -> t_DOUBLEDASH(t, L)
      [] rule = "DOUBLESTAR"       -> t_DOUBLESTAR(t, L)
      [] rule = "DOUBLETILDE"      -> t_DOUBLETILDE(t, L)
      [] rule = "REND"             -> t_REND(t, L)
      [] rule = "WITH"             -> t_WITH(t, L)
      [] rule = "LISTBULLET"       -> t_LISTBULLET(t, L)
      [] rule = "INDENT"           -> t_INDENT(t, L)
      [] rule = "UNBREAKTEXT"      -> t_UNBREAKTEXT(t, L)
      [] rule = "PLAINTEXT"        -> t_PLAINTEXT(t, L)
      [] rule = "eof"              -> t_eof(t, L)
      \* t_error: no rule matches
      [] OTHER -> LexerError(t, L, "Illegal token")

\* The entry lexer_token adds to L.log for one run of a rule function: the
\* tokens it produced, in the order they will leave the lexer (the one it
\* returns, then the ones it queued), and the indentation stack before and
\* after.  L is the lexer state before the run, R the rule function's result.
Logged(L, rule, text, R) ==
    [R EXCEPT !.L.log =
        Append(L.log,
               [rule |-> rule, pos |-> L.lexpos, text |-> text,
                before |-> L.indents, after |-> R.L.indents,
                toks |-> IF R.tok.type = "None" THEN <<>>
                         ELSE <<R.tok>> \o SubSeq(R.L.queue, Len(L.queue) + 1,
                                                  Len(R.L.queue)),
                raised |-> R.err # NoErr])]

\* The scanner's step for the rule that matches up to e: it makes the token,
\* moves the cursor to e and calls the rule function.
ScanMatch(L, rule, e) ==
    Logged(L, rule, Slice(inp, L.lexpos, e),
           RuleFunction(rule,
                        Tok(rule, Slice(inp, L.lexpos, e), L.lineno, 0, L.lexpos),
                        [L EXCEPT !.lexpos = e]))

ScanRule(L, rule) ==
    ScanMatch(L, rule,
              IF rule \in {"eof", ""} THEN L.lexpos
              ELSE RuleMatch(rule, inp, L.lexpos))

\* self.lexer.token(): ply's scanner.  At the end of the text it calls
\* t_eof; otherwise it takes the first rule that matches at the cursor.
lexer_token(L) ==
    ScanRule(L, IF L.lexpos >= Len(inp) THEN "eof" ELSE FirstRule(inp, L.lexpos))

\* self.queue.popleft() if self.queue else self.lexer.token()
Fetch(L) ==
    IF L.queue # <<>>
    THEN Ret(Head(L.queue), [L EXCEPT !.queue = Tail(L.queue)])
    ELSE lexer_token(L)

\* _skip_trailing_ws without COMMENT.
skip_trailing_ws_NoComment == {"MULTILINECOMMENT", "CODEBLOCK", "MULTILINEMATH"}

\* Lexer._skip_trailing_ws
skip_trailing_ws == {"COMMENT", "MULTILINECOMMENT", "CODEBLOCK", "MULTILINEMATH"}

\* not next.value.strip()
IsBlank(v) == Strip(v) = <<>>

\* The looked-at token put at the back of the queue (append for appendleft).
PutBack_AtBack(t, R) == Ret(t, [R.L EXCEPT !.queue = R.L.queue \o <<R.tok>>])

\* self.queue.appendleft(next), and t is what _next_token returns
PutBack(t, R) == Ret(t, [R.L EXCEPT !.queue = <<R.tok>> \o R.L.queue])

\* _next_token without the merge loop.
MergeText_NoMerge(t, R) == IF R.err # NoErr THEN R ELSE PutBack(t, R)

\* _next_token, the PLAINTEXT branch: merge the text tokens that follow
\* into t, then put the first token that is not text (None included) back
\* at the front of the queue.  R is the token just fetched as next.
RECURSIVE MergeText(_, _)
MergeText(t, R) ==
    IF R.err # NoErr THEN R
    ELSE IF R.tok.type = "PLAINTEXT"
    THEN MergeText([t EXCEPT !.value = t.value \o R.tok.value], Fetch(R.L))
    ELSE PutBack(t, R)

\* _next_token, the _skip_trailing_ws branch: draw down the blank text
\* tokens that follow, then put the first other token back at the front.
RECURSIVE DrainWhitespace(_, _)
DrainWhitespace(t, R) ==
    IF R.err # NoErr THEN R
    ELSE IF R.tok.type = "PLAINTEXT" /\ IsBlank(R.tok.value)
    THEN DrainWhitespace(t, Fetch(R.L))
    ELSE PutBack(t, R)

\* _next_token's handling of the token R.tok it got first.
Handle(R) ==
    IF R.err # NoErr \/ R.tok.type = "None" THEN R
    ELSE IF R.tok.type = "PLAINTEXT" THEN MergeText(R.tok, Fetch(R.L))
    ELSE IF R.tok.type \in skip_trailing_ws THEN DrainWhitespace(R.tok, Fetch(R.L))
    ELSE R

\* Lexer._next_token
next_token(L) == Handle(Fetch(L))

----------------------------------------------------------------------------
(* The state machine.                                                      *)

\* The lexer state the operators above work on.
Cur ==
    [lexpos |-> lexpos, lineno |-> lineno, indents |-> indents,
     queue |-> queue, log |-> scanned]

\* No grammar rule function has run.
NoProd == [rule |-> "", p |-> <<>>, p0 |-> <<>>, exc |-> "", msg |-> ""]

\* The threads that call the module-level parse().
Callers == {"T1", "T2"}

\* A thread that has not called parse() yet.
Idle == [st |-> "idle", s |-> <<>>, out |-> <<>>]

\* No node made and nothing compared yet.
NoPair == [a |-> <<>>, b |-> <<>>, res |-> <<>>]

\* No call of visit yet.
NoWalk == [st |-> "idle"]

\* No visitor made yet.
NoTrav == [st |-> "idle"]

\* No EventsVisitor yet.
NoEvis == [st |-> "idle"]

\* No AssetsCache yet.
NoAssets == [st |-> "idle"]

\* The parser before parse() is called.
NoYacc == [st |-> "idle", n |-> 0, stack |-> <<>>, toks |-> <<>>, nodes |-> <<>>]

\* Lexer.__init__ -> build -> reset, on a scanner that has no input yet.
Init ==
    /\ inp = <<>>
    /\ lexpos = 0
    /\ lineno = 1
    /\ indents = << <<>> >>
    /\ queue = <<>>
    /\ last = None
    /\ beforelast = None
    /\ status = "new"
    /\ err = NoErr
    /\ out = <<>>
    /\ scanned = <<>>
    /\ prior = "none"
    /\ calls = [c \in Callers |-> Idle]
    /\ prod = NoProd
    /\ yacc = NoYacc
    /\ pair = NoPair
    /\ walk = NoWalk
    /\ trav = NoTrav
    /\ evis = NoEvis
    /\ assets = NoAssets

\* Lexer.input(s) on a fresh or reset lexer: keeps the text and rewinds the
\* scanner's cursor.
Input ==
    /\ status = "new"
    /\ \E s \in Inputs : inp' = s
    /\ lexpos' = 0
    /\ status' = "lexing"
    /\ UNCHANGED <<lineno, indents, queue, last, beforelast, err, out, scanned, prior>>
    /\ UNCHANGED others

Store(R) ==
    /\ lexpos' = R.L.lexpos
    /\ lineno' = R.L.lineno
    /\ indents' = R.L.indents
    /\ queue' = R.L.queue
    /\ scanned' = R.L.log

\* token() with R the result of _next_token: a token, None at the end of the
\* stream (where __iter__ stops), or the SyntaxError of _lexer_error passing
\* through.  beforelast is assigned before _next_token is entered, last
\* after it returned.
Returns(R) ==
    /\ R.err = NoErr
    /\ R.tok.type # "None"
    /\ Store(R)
    /\ beforelast' = last
    /\ last' = R.tok
    /\ out' = Append(out, R.tok)
    /\ UNCHANGED <<inp, status, err, prior, others>>

Ends(R) ==
    /\ R.err = NoErr
    /\ R.tok.type = "None"
    /\ Store(R)
    /\ beforelast' = last
    /\ last' = None
    /\ status' = "done"
    /\ UNCHANGED <<inp, err, out, prior, others>>

Raises(R) ==
    /\ R.err # NoErr
    /\ Store(R)
    /\ err' = R.err
    /\ beforelast' = last
    /\ status' = "error"
    /\ UNCHANGED <<inp, last, out, prior, others>>

\* Lexer.token() returning a token.
TokenReturn == status = "lexing" /\ Returns(next_token(Cur))

\* Lexer.token() returning None.
TokenEnd == status = "lexing" /\ Ends(next_token(Cur))

\* Lexer.token() raising.
TokenRaise == status = "lexing" /\ Raises(next_token(Cur))

\* What the running or finished call leaves in the lexer when the next one
\* begins: "open" when levels are open or tokens pending, "clean" otherwise.
Left ==
    IF status = "new" THEN prior
    ELSE IF Len(indents) > 1 \/ queue # <<>> THEN "open"
    ELSE "clean"

\* Lexer.reset() leaving the indentation stack as it is.
Reset_KeepsIndents ==
    /\ status # "new"
    /\ lineno' = 1
    /\ inp' = <<>>
    /\ last' = None
    /\ beforelast' = None
    /\ queue' = <<>>
    /\ status' = "new"
    /\ err' = NoErr
    /\ out' = <<>>
    /\ scanned' = <<>>
    /\ prior' = Left
    /\ UNCHANGED <<lexpos, indents, others>>

\* Lexer.reset(), which Parser.reset() calls at the start of every
\* Parser.parse(s); the text is handed over by Input right after it, when
\* ply.yacc's parse() calls Lexer.input(s).  A call may begin whatever the
\* call before it left: a finished run, or one that an error of the lexer
\* or of the grammar ended in the middle of the text.  The scanner's cursor
\* is left where it is until input().  The histories start afresh.
Reset ==
    /\ status # "new"
    /\ lineno' = 1
    /\ inp' = <<>>
    /\ last' = None
    /\ beforelast' = None
    /\ queue' = <<>>
    /\ indents' = << <<>> >>
    /\ status' = "new"
    /\ err' = NoErr
    /\ out' = <<>>
    /\ scanned' = <<>>
    /\ prior' = Left
    /\ UNCHANGED <<lexpos, others>>

Next == Input \/ TokenReturn \/ TokenEnd \/ TokenRaise \/ Reset

Spec == Init /\ [][Next]_vars

----------------------------------------------------------------------------
(* Runs of token() as a function of the state they start in.               *)

\* The state of a lexer that was just constructed and given the text.
Fresh ==
    [L |-> [lexpos |-> 0, lineno |-> 1, indents |-> << <<>> >>, queue |-> <<>>,
            log |-> <<>>],
     last |-> None, beforelast |-> None, status |-> "lexing", err |-> NoErr,
     out |-> <<>>]

\* The state V after one more call of token() whose _next_token gave R.
AfterToken(V, R) ==
    IF R.err # NoErr
    THEN [V EXCEPT !.L = R.L, !.beforelast = V.last, !.status = "error",
                   !.err = R.err]
    ELSE IF R.tok.type = "None"
    THEN [V EXCEPT !.L = R.L, !.beforelast = V.last, !.last = None,
                   !.status = "done"]
    ELSE [V EXCEPT !.L = R.L, !.beforelast = V.last, !.last = R.tok,
                   !.out = Append(V.out, R.tok)]

\* The state V after up to n more calls of token().
RECURSIVE RunTo(_, _)
RunTo(V, n) ==
    IF n = 0 \/ V.status # "lexing" THEN V
    ELSE RunTo(AfterToken(V, next_token(V.L)), n - 1)

\* The state of the lexer in use, laid out as the states above.
Here ==
    [L |-> Cur, last |-> last, beforelast |-> beforelast, status |-> status,
     err |-> err, out |-> out]

----------------------------------------------------------------------------
(* Calls of the module-level parse() from several threads.  parse() makes  *)
(* one Parser, keeps it in the global _PARSER and uses it for every call,  *)
(* so the calls share its Lexer.  A step is one call of a method of the    *)
(* lexer; the threads take their steps in any order.                       *)

ConcChunks == { <<"a">>, <<NL>>, <<"-", " ">> }

ConcInputs ==
    { Concat(cs) : cs \in UNION { [1..n -> ConcChunks] : n \in 0..MaxConcChunks } }

\* Thread c enters parse(s): Parser.parse resets the shared lexer and
\* ply.yacc's parse() hands it the text.
ConcParse(c) ==
    /\ calls[c].st = "idle"
    /\ \E s \in ConcInputs : inp' = s
    /\ lexpos' = 0
    /\ lineno' = 1
    /\ last' = None
    /\ beforelast' = None
    /\ queue' = <<>>
    /\ indents' = << <<>> >>
    /\ status' = "lexing"
    /\ err' = NoErr
    /\ calls' = [calls EXCEPT ![c] =
                    [st |-> "running", s |-> inp', out |-> <<>>]]
    /\ UNCHANGED <<out, scanned, prior, prod, heap>>

\* The shared lexer and thread c after its call of token() led to V.
ConcStore(c, V) ==
    /\ lexpos' = V.L.lexpos
    /\ lineno' = V.L.lineno
    /\ indents' = V.L.indents
    /\ queue' = V.L.queue
    /\ scanned' = V.L.log
    /\ last' = V.last
    /\ beforelast' = V.beforelast
    /\ status' = V.status
    /\ err' = V.err
    /\ out' = V.out
    /\ calls' = [calls EXCEPT
                    ![c].st = IF V.status = "lexing" THEN "running" ELSE V.status,
                    ![c].out = IF Len(V.out) > Len(out)
                               THEN Append(calls[c].out, V.last)
                               ELSE calls[c].out]
    /\ UNCHANGED <<inp, prior, prod, heap>>

\* The parser of thread c asks the shared lexer for its next token.
ConcToken(c) ==
    /\ calls[c].st = "running"
    /\ ConcStore(c, AfterToken([Here EXCEPT !.status = "lexing", !.err = NoErr],
                               next_token(Cur)))

NextConc == \E c \in Callers : ConcParse(c) \/ ConcToken(c)

SpecConc == Init /\ [][NextConc]_vars

----------------------------------------------------------------------------
(* The rule functions of the parser (src/leyline/parser.py) for lists and  *)
(* tables.  ply.yacc calls a rule function with p[1..], the values of the  *)
(* symbols of its production, and takes p[0] from it.  Python values of    *)
(* different types are told apart by a tag: a bullet value is a string or  *)
(* an integer, List.bullets one value or a list of values, Table.widths    *)
(* the string 'auto' or a list of numbers.                                 *)

Str(s) == [kind |-> "str", s |-> s, n |-> 0]
Num(n) == [kind |-> "int", s |-> "", n |-> n]

\* The values t_LISTBULLET gives a bullet token: the bullet character, or
\* the integer written before the dot.
BulletValues == { Str("-"), Str("*"), Num(1), Num(2) }

\* List.bullets: one value for all items, or one value per item.
Scalar(b) == [scalar |-> TRUE, value |-> b, values |-> <<>>]
PerItem(bs) == [scalar |-> FALSE, value |-> Str(""), values |-> bs]

\* ast.Node and the nodes the rule functions below handle.
Node(node, line, column, bullets, items) ==
    [node |-> node, lineno |-> line, column |-> column, bullets |-> bullets,
     items |-> items]

TextBlock(line) == Node("TextBlock", line, 3, Scalar(Str("")), <<>>)

List(line, column, bullets, items) == Node("List", line, column, bullets, items)

\* What a rule function gives: p[0], or the exception it raises.
Value(v) == [p0 |-> v, exc |-> "", msg |-> ""]
Raise(exc, msg) == [p0 |-> <<>>, exc |-> exc, msg |-> msg]

\* Parser._parse_error
parse_error(msg) == Raise("SyntaxError", msg)

\* Parser._bullets_and_items with same_bullets decided by the last item only.
bullets_and_items_LastOnly(listitems) ==
    LET firstbullet == listitems[1][1].value
        bullets     == [k \in 1..Len(listitems) |-> listitems[k][1].value]
    IN  [lineno  |-> listitems[1][1].lineno,
         column  |-> listitems[1][1].column,
         bullets |-> IF bullets[Len(bullets)] = firstbullet
                     THEN Scalar(firstbullet) ELSE PerItem(bullets),
         items   |-> [k \in 1..Len(listitems) |-> Tail(listitems[k])]]

\* Parser._bullets_and_items: a listitem is [bullet token, block, ...].
bullets_and_items(listitems) ==
    LET firstbullet == listitems[1][1].value
        bullets     == [k \in 1..Len(listitems) |-> listitems[k][1].value]
    IN  [lineno  |-> listitems[1][1].lineno,
         column  |-> listitems[1][1].column,
         bullets |-> IF \A k \in 1..Len(listitems) : bullets[k] = firstbullet
                     THEN Scalar(firstbullet) ELSE PerItem(bullets),
         items   |-> [k \in 1..Len(listitems) |-> Tail(listitems[k])]]

\* Parser.p_list
p_list(listitems) ==
    Value(List(bullets_and_items(listitems).lineno,
               bullets_and_items(listitems).column,
               bullets_and_items(listitems).bullets,
               bullets_and_items(listitems).items))

\* The LISTBULLET token of the item on line k.
BulletTok(b, k) == Tok("LISTBULLET", b, k, 1, 0)

\* p[1] of p_list: one to MaxItems items "bullet text", one per line.
ListItems ==
    UNION { { [k \in 1..n |-> <<BulletTok(bs[k], k), TextBlock(k)>>] :
                bs \in [1..n -> BulletValues] } : n \in 1..MaxItems }

\* A list of c cells "* text" that starts on line l: one row of a table.
RowList(l, c) ==
    List(l, 5, Scalar(Str("*")), [k \in 1..c |-> <<TextBlock(l + k - 1)>>])

\* The blocks of one item of a table's list: a list of cells, a text block,
\* or a list of cells followed by a text block.
RowBodies(l) ==
    { <<RowList(l, c)>> : c \in 1..MaxCells }
        \cup { <<TextBlock(l)>>, <<RowList(l, 1), TextBlock(l + 1)>> }

\* p[3] of p_table_plain and p[4] of p_table_info: one to MaxRows items.
RowItems ==
    UNION { { [k \in 1..n |-> <<BulletTok(Str("-"), k)>> \o bodies[k]] :
                bodies \in [1..n -> RowBodies(1)] } : n \in 1..MaxRows }

\* Table(...): header_rows, header_cols and widths default to 1, 0, 'auto'.
Auto == [auto |-> TRUE, w |-> <<>>]
Fractions(w) == [auto |-> FALSE, w |-> w]

Table(line, column, info, rows) ==
    [node |-> "Table", lineno |-> line, column |-> column,
     header_rows |-> IF "header_rows" \in info.names THEN info.header_rows ELSE 1,
     header_cols |-> IF "header_cols" \in info.names THEN info.header_cols ELSE 0,
     widths |-> IF "widths" \in info.names THEN info.widths ELSE Auto,
     rows |-> rows]

\* info = {}
NoInfo == [names |-> {}, header_rows |-> 0, header_cols |-> 0, widths |-> Auto]

\* Parser._items_to_rows: the first item that is not exactly one List
\* raises; otherwise each item's List gives its items as the row.
items_to_rows(items) ==
    LET bad == { k \in 1..Len(items) :
                    Len(items[k]) # 1 \/ items[k][1].node # "List" }
    IN  IF bad = {} THEN Value([k \in 1..Len(items) |-> items[k][1].items])
        ELSE IF Len(items[Min(bad)]) # 1
        THEN parse_error("incorrectly formatted table row")
        ELSE parse_error("table row must be formatted as a list")

\* A text of the metadata is a sequence of atoms: a word (a run of
\* characters without blank, newline or equals sign), " ", "=" or NL.
\* Words that follow each other are separated by blanks.
Numbers == { "0", "1", "2", "3", "-1" }

\* float(t) and int(t) of a word that is a number.
NumberOf(t) ==
    CASE t = "0" -> 0 [] t = "1" -> 1 [] t = "2" -> 2 [] t = "3" -> 3
      [] t = "-1" -> -1

\* s.split()
Split(s) == SelectSeq(s, LAMBDA a : a \notin Whitespace)

\* What one of the table_info_parsers gives: (True, value), (False, message),
\* or the exception it lets through.
Parsed(v) == [status |-> TRUE, val |-> v, exc |-> ""]
NotParsed(msg) == [status |-> FALSE, val |-> msg, exc |-> ""]
Thrown(exc) == [status |-> FALSE, val |-> "", exc |-> exc]

RECURSIVE Sum(_)
Sum(w) == IF w = <<>> THEN 0 ELSE Head(w) + Sum(Tail(w))

\* widths of table_info_parsers.  A width n / total is kept as the pair of
\* n and total; float division by zero raises ZeroDivisionError.
widths(s) ==
    IF s = <<"auto">> THEN Parsed(Auto)
    ELSE LET ts  == Split(s)
             bad == { k \in 1..Len(ts) : ts[k] \notin Numbers \/ NumberOf(ts[k]) < 0 }
             w   == [k \in 1..Len(ts) |-> NumberOf(ts[k])]
         IN  IF bad # {}
             THEN IF ts[Min(bad)] \notin Numbers
                  THEN NotParsed("could not convert string to float")
                  ELSE NotParsed("negative widths not allowed")
             ELSE IF w # <<>> /\ Sum(w) = 0 THEN Thrown("ZeroDivisionError")
             ELSE Parsed(Fractions([k \in 1..Len(w) |->
                                       [num |-> w[k], den |-> Sum(w)]]))

\* asint of table_info_parsers: int(s) skips the blanks around the number.
asint(s) ==
    IF Len(Strip(s)) = 1 /\ Strip(s)[1] \in Numbers
    THEN Parsed(NumberOf(Strip(s)[1]))
    ELSE NotParsed("invalid literal for int() with base 10")

\* tip = {'widths': widths, 'header_cols': asint, 'header_rows': asint}
tip == { "widths", "header_cols", "header_rows" }

\* t.value.splitlines()
RECURSIVE SplitLines(_)
SplitLines(text) ==
    IF text = <<>> THEN <<>>
    ELSE IF FindFirst(text, 0, {NL}) = -1 THEN <<text>>
    ELSE <<Slice(text, 0, FindFirst(text, 0, {NL}))>>
             \o SplitLines(Slice(text, FindFirst(text, 0, {NL}) + 1, Len(text)))

\* info[name] = val
SetInfo(info, name, val) ==
    [names |-> info.names \cup {name},
     header_rows |-> IF name = "header_rows" THEN val ELSE info.header_rows,
     header_cols |-> IF name = "header_cols" THEN val ELSE info.header_cols,
     widths |-> IF name = "widths" THEN val ELSE info.widths]

\* One turn of the loop of _parse_table_info on the stripped line, eq the
\* place of its first "=" (-1 when it has none) and r what the parser of
\* its name gives for the text after the "=".
InfoLine(info, line, eq, name, r) ==
    IF line = <<>> THEN Value(info)
    ELSE IF eq = -1
    THEN parse_error("table metadata information must contain an assignment equals sign '='")
    ELSE IF Len(name) # 1 \/ name[1] \notin tip
    THEN parse_error("table metadata name not recognized")
    ELSE IF name[1] \in info.names
    THEN parse_error("appears multiple times in table metadata")
    ELSE IF r.exc # "" THEN Raise(r.exc, "")
    ELSE IF ~r.status THEN parse_error(r.val)
    ELSE Value(SetInfo(info, name[1], r.val))

\* line.partition('=') and tip[name](value) for the stripped line.
InfoOf(info, line) ==
    InfoLine(info, line, FindFirst(line, 0, {"="}),
             Strip(Slice(line, 0, FindFirst(line, 0, {"="}))),
             IF Strip(Slice(line, 0, FindFirst(line, 0, {"="}))) = <<"widths">>
             THEN widths(Slice(line, FindFirst(line, 0, {"="}) + 1, Len(line)))
             ELSE asint(Slice(line, FindFirst(line, 0, {"="}) + 1, Len(line))))

\* The loop of _parse_table_info over the lines left, R what it has so far.
RECURSIVE InfoLoop(_, _)
InfoLoop(R, lines) ==
    IF R.exc # "" \/ lines = <<>> THEN R
    ELSE InfoLoop(InfoOf(R.p0, Strip(Head(lines))), Tail(lines))

\* Parser._parse_table_info
parse_table_info(t) == InfoLoop(Value(NoInfo), SplitLines(t.value))

\* The body of p_table_plain and p_table_info once the metadata is read.
TableOf(p1, I, listitems, rows) ==
    IF I.exc # "" THEN I
    ELSE IF rows.exc # "" THEN rows
    ELSE Value(Table(p1.lineno, p1.column, I.p0, rows.p0))

\* Parser.p_table_plain: table : table_tok INDENT listitems DEDENT
p_table_plain(p1, listitems) ==
    TableOf(p1, Value(NoInfo), listitems,
            items_to_rows(bullets_and_items(listitems).items))

\* Parser.p_table_info: table : table_tok INDENT plaintext_tok listitems DEDENT
p_table_info(p1, p3, listitems) ==
    TableOf(p1, parse_table_info(p3), listitems,
            items_to_rows(bullets_and_items(listitems).items))

\* The lines a metadata text is made of.
InfoLines ==
    { <<"widths", " ", "=", " ", "auto">>,
      <<"widths", "=", "auto">>,
      <<"widths", " ", "=", " ", "1", " ", "3">>,
      <<"widths", "=", "0", " ", "0">>,
      <<"widths", " ", "=">>,
      <<"widths", "=", "1", " ", "-1">>,
      <<"widths", "=", "1", " ", "x">>,
      <<"header_rows", " ", "=", " ", "2">>,
      <<"header_rows", "=", "x">>,
      <<"header_rows", "=", "1", " ", "3">>,
      <<"header_cols", " ", "=", " ", "0">>,
      <<"header_cols">>,
      <<"foo", " ", "=", " ", "1">>,
      <<" ">> }

\* "\n".join(lines)
RECURSIVE Join(_)
Join(lines) ==
    IF Len(lines) = 1 THEN Head(lines) ELSE Head(lines) \o <<NL>> \o Join(Tail(lines))

\* The metadata texts: one to MaxInfoLines lines.
InfoTexts ==
    { Join(ls) : ls \in UNION { [1..n -> InfoLines] : n \in 1..MaxInfoLines } }

\* The TABLE token of t_TABLE and the PLAINTEXT token of the metadata.
TableTok == Tok("TABLE", "table::", 1, 1, 0)
InfoTok(text) == Tok("PLAINTEXT", text, 2, 3, 10)

\* ply.yacc reduces by a production: it calls the rule function with p and
\* gets R from it.
Reduce(rule, p, R) ==
    /\ prod' = [rule |-> rule, p |-> p, p0 |-> R.p0, exc |-> R.exc, msg |-> R.msg]
    /\ UNCHANGED <<lexvars, calls, heap>>

\* list : listitems
Reduce_list ==
    /\ prod = NoProd
    /\ \E l \in ListItems : Reduce("list", <<l>>, p_list(l))

\* table : table_tok INDENT listitems DEDENT
Reduce_table_plain ==
    /\ prod = NoProd
    /\ \E l \in RowItems :
          Reduce("table_plain", <<TableTok, l>>, p_table_plain(TableTok, l))

\* table : table_tok INDENT plaintext_tok listitems DEDENT
Reduce_table_info ==
    /\ prod = NoProd
    /\ \E l \in RowItems : \E text \in InfoTexts :
          Reduce("table_info", <<TableTok, InfoTok(text), l>>,
                 p_table_info(TableTok, InfoTok(text), l))

NextRules == Reduce_list \/ Reduce_table_plain \/ Reduce_table_info

SpecRules == Init /\ [][NextRules]_vars

----------------------------------------------------------------------------
(* Reading the histories.                                                  *)

\* The tokens the rule functions produced, in the order they leave the
\* scanner and the queue behind it.
RECURSIVE Flatten(_)
Flatten(log) == IF log = <<>> THEN <<>> ELSE Head(log).toks \o Flatten(Tail(log))

Raw == Flatten(scanned)

NumOf(toks, type) == Cardinality({ k \in 1..Len(toks) : toks[k].type = type })

Entries(rule) == { k \in 1..Len(scanned) : scanned[k].rule = rule }

\* The whitespace prefix that follows the newlines of a newline run.
Prefix(e) == Slice(e.text, Count(e.text, NL), Len(e.text))

\* The levels a rule function's run closed, innermost first.
Closed(e) ==
    [j \in 1..(Len(e.before) - Len(e.after)) |-> e.before[Len(e.before) - j + 1]]

\* The token that leaves the lexer right after out[m]: the next one
\* returned, or the head of the queue when out[m] is the last one returned.
HasFollower(m) == m < Len(out) \/ queue # <<>>
Follower(m) == IF m < Len(out) THEN out[m + 1] ELSE Head(queue)

\* Adjacent PLAINTEXT tokens merged into the first of each run.
RECURSIVE Coalesce(_)
Coalesce(toks) ==
    IF Len(toks) < 2 THEN toks
    ELSE IF toks[1].type = "PLAINTEXT" /\ toks[2].type = "PLAINTEXT"
    THEN Coalesce(<<[toks[1] EXCEPT !.value = toks[1].value \o toks[2].value]>>
                  \o SubSeq(toks, 3, Len(toks)))
    ELSE <<toks[1]>> \o Coalesce(Tail(toks))

\* The four token types after which blank text is said to be dropped.
SkipTypes == {"COMMENT", "MULTILINECOMMENT", "CODEBLOCK", "MULTILINEMATH"}

BlankText(t) == t.type = "PLAINTEXT" /\ IsBlank(t.value)

\* The blank PLAINTEXT tokens that directly follow a comment, multiline
\* comment, code block or math block removed; after is TRUE right after one.
RECURSIVE DropBlankAfterSkip(_, _)
DropBlankAfterSkip(toks, after) ==
    IF toks = <<>> THEN <<>>
    ELSE IF after /\ toks[1].type = "PLAINTEXT" /\ IsBlank(toks[1].value)
    THEN DropBlankAfterSkip(Tail(toks), TRUE)
    ELSE <<toks[1]>> \o DropBlankAfterSkip(Tail(toks), toks[1].type \in SkipTypes)

----------------------------------------------------------------------------
(* The claims.                                                             *)

\* C1: for every input lexed to the end of the stream without an error, the
\* number of INDENT tokens returned (from newline indentation and from the
\* synthetic ones queued after list bullets) equals the number of DEDENT
\* tokens returned (from newline dedents and from the flush at the end of
\* the input).
C1_IndentsEqualDedents ==
    status = "done" => NumOf(out, "INDENT") = NumOf(out, "DEDENT")

\* A finished run with an INDENT from a newline run, an INDENT queued after
\* a bullet, and DEDENTs flushed at the end of the input.
C1_Witness ==
    /\ status = "done"
    /\ \E k \in Entries("INDENT") :
          scanned[k].toks # <<>> /\ scanned[k].toks[1].type = "INDENT"
    /\ \E k \in Entries("LISTBULLET") :
          Len(scanned[k].toks) = 2 /\ scanned[k].toks[2].type = "INDENT"
    /\ \E k \in Entries("eof") : Len(scanned[k].toks) >= 2
    /\ NumOf(out, "INDENT") >= 2

\* C2 (as claimed): on a newline run whose prefix p is a strict reduction
\* of the stack top, the lexer pops levels until the remaining top equals p
\* exactly; if p equals no level of the stack, or p is neither a prefix nor
\* an extension of the top, it raises the "Indentation level doesn't match"
\* error instead of producing DEDENT tokens.
C2_DedentToExactLevelOrError ==
    \A k \in Entries("INDENT") :
        LET e   == scanned[k]
            p   == Prefix(e)
            top == Top(e.before)
        IN  /\ (Len(p) < Len(top) /\ StartsWith(top, p))
                  => IF \E n \in 1..Len(e.before) : e.before[n] = p
                     THEN ~e.raised /\ Top(e.after) = p
                     ELSE e.raised /\ e.toks = <<>>
            /\ (~StartsWith(top, p) /\ ~StartsWith(p, top))
                  => e.raised /\ e.toks = <<>>

\* C3: when one newline run closes k >= 1 levels, exactly k DEDENT tokens
\* are produced, one per popped level with the popped level as value,
\* innermost first; they leave the lexer one after the other, each directly
\* followed by the next, before any token scanned from later text, also
\* when the run is met during the look-ahead of text merging.
C3_DedentsPerClosedLevel ==
    \A k \in Entries("INDENT") :
        LET e == scanned[k]
            n == Len(e.before) - Len(e.after)
        IN  n >= 1 =>
              /\ Len(e.toks) = n
              /\ e.after = SubSeq(e.before, 1, Len(e.after))
              /\ \A j \in 1..n :
                    /\ e.toks[j].type = "DEDENT"
                    /\ e.toks[j].value = Closed(e)[j]
              /\ \A m \in 1..Len(out) : \A j \in 1..(n - 1) :
                    out[m] = e.toks[j] =>
                        HasFollower(m) /\ Follower(m) = e.toks[j + 1]
              /\ status = "done" =>
                    \A j \in 1..n : \E m \in 1..Len(out) : out[m] = e.toks[j]

\* A newline run that closed two levels, met while text was being merged:
\* the text token and then the two DEDENTs have been returned.
C3_Witness ==
    \E k \in Entries("INDENT") : \E m \in 1..Len(out) :
        /\ Len(scanned[k].before) - Len(scanned[k].after) >= 2
        /\ m + 2 <= Len(out)
        /\ out[m].type = "PLAINTEXT"
        /\ out[m + 1] = scanned[k].toks[1]
        /\ out[m + 2] = scanned[k].toks[2]

\* C4: at the end of the input the lexer returns exactly one DEDENT for each
\* level still open (stack depth minus one), innermost first, whether or
\* not the text ends with a newline, and only then None; afterwards the
\* indentation stack is [''].
C4_EofFlush ==
    status = "done" =>
        /\ indents = << <<>> >>
        /\ queue = <<>>
        /\ Entries("eof") # {}
        /\ LET e == scanned[Min(Entries("eof"))]
               n == Len(e.before) - 1
           IN  /\ Len(e.toks) = n
               /\ \A j \in 1..n :
                     /\ e.toks[j].type = "DEDENT"
                     /\ e.toks[j].value = e.before[Len(e.before) - j + 1]
               /\ Len(out) >= n
               /\ SubSeq(out, Len(out) - n + 1, Len(out)) = e.toks
               /\ \A k \in Entries("eof") : k > Min(Entries("eof")) => scanned[k].toks = <<>>

\* A finished run on a text without a final newline that ended with two
\* levels open.
C4_Witness ==
    /\ status = "done"
    /\ ~EndsWithNL(inp)
    /\ \E k \in Entries("eof") : Len(scanned[k].before) >= 3
    /\ Len(out) >= 2
    /\ out[Len(out)].type = "DEDENT"
    /\ out[Len(out) - 1].type = "DEDENT"

RECURSIVE BulletGroups(_, _)
BulletGroups(x, q) ==
    LET e == MatchBullet(x, q)
    IN  e # -1 /\ (e = Len(x) \/ BulletGroups(x, e))

\* x consists only of optional leading whitespace and then bullet groups.
FullBullets(x) == BulletGroups(x, SpanWhile(x, 0, {" ", TAB}))

\* The text from the start of the line of a bullet-like run through the run.
LineThrough(e) == Slice(inp, RFind(inp, NL, e.pos) + 1, e.pos + Len(e.text))

\* C6 (as claimed): a bullet-like run is a LISTBULLET token only when the
\* text from the start of its line up to and including it is optional
\* leading whitespace followed by one or more bullet groups; otherwise, also
\* on a line that itself begins with a bullet, the run is plain text and
\* pushes no level.
C6_BulletOnlyAfterBullets ==
    \A k \in Entries("LISTBULLET") :
        LET e == scanned[k]
        IN  /\ ~e.raised /\ e.toks # <<>>
            /\ e.toks[1].type = "LISTBULLET" => FullBullets(LineThrough(e))
            /\ ~FullBullets(LineThrough(e)) =>
                  /\ Len(e.toks) = 1
                  /\ e.toks[1].type = "PLAINTEXT"
                  /\ e.toks[1].value = e.text
                  /\ e.after = e.before

\* The out token that holds the newline run of e inside its text.
Covers(t, e) ==
    /\ t.type = "PLAINTEXT"
    /\ t.lexpos <= e.pos
    /\ e.pos + Len(e.text) <= t.lexpos + Len(t.value)
    /\ Slice(t.value, e.pos - t.lexpos, e.pos - t.lexpos + Len(e.text)) = e.text

\* The piece of e comes after a comment, multiline comment, code block or
\* math block with nothing but blank text between them.
AfterSkip(e) ==
    \E r \in 1..Len(Raw) : \E r2 \in (r + 1)..Len(Raw) :
        /\ Raw[r].type \in SkipTypes
        /\ Raw[r2].type = "PLAINTEXT" /\ Raw[r2].lexpos = e.pos
        /\ \A j \in (r + 1)..r2 : BlankText(Raw[j])

\* What t_INDENT does with a newline run whose prefix equals the stack top:
\* one PLAINTEXT piece, the stack unchanged, and no INDENT or DEDENT
\* returned for the run.
UnchangedLevel(e) ==
    /\ ~e.raised
    /\ e.after = e.before
    /\ Len(e.toks) = 1
    /\ e.toks[1].type = "PLAINTEXT"
    /\ e.toks[1].value = e.text
    /\ e.toks[1].lexpos = e.pos
    /\ \A m \in 1..Len(out) :
          out[m].lexpos = e.pos => out[m].type \notin {"INDENT", "DEDENT"}

\* C7 (as claimed): when the prefix after a newline run equals the stack
\* top, no INDENT or DEDENT is produced, the stack is unchanged, and the
\* run is part of a plain-text token of the stream.
C7_UnchangedLevelInText ==
    \A k \in Entries("INDENT") :
        LET e == scanned[k]
        IN  Prefix(e) = Top(e.before) =>
              /\ UnchangedLevel(e)
              /\ status = "done" => \E m \in 1..Len(out) : Covers(out[m], e)

\* C7 (amended): when the prefix after a newline run equals the stack top,
\* no INDENT or DEDENT is produced, the stack is unchanged and the run is a
\* plain-text piece; the piece is part of a plain-text token of the stream
\* exactly when it does not come after a comment, multiline comment, code
\* block or math block with only blank text between, where it is dropped.
C7_UnchangedLevelIsTextPiece ==
    \A k \in Entries("INDENT") :
        LET e == scanned[k]
        IN  Prefix(e) = Top(e.before) =>
              /\ UnchangedLevel(e)
              /\ status = "done" =>
                    ((\E m \in 1..Len(out) : Covers(out[m], e)) <=> ~AfterSkip(e))

\* A newline run at an open, unchanged level of one space, delivered inside
\* a longer plain-text token.
C7_Witness ==
    /\ status = "done"
    /\ \E k \in Entries("INDENT") : \E m \in 1..Len(out) :
          /\ Prefix(scanned[k]) = Top(scanned[k].before)
          /\ Covers(out[m], scanned[k])
          /\ out[m].value # scanned[k].text

\* C8: when the prefix p after a newline run strictly extends the stack
\* top, exactly one level (p) is pushed and exactly one INDENT token, with
\* value p, is produced and returned, however much deeper p is.
C8_OnePushOneIndent ==
    \A k \in Entries("INDENT") :
        LET e   == scanned[k]
            p   == Prefix(e)
            top == Top(e.before)
        IN  (Len(p) > Len(top) /\ StartsWith(p, top)) =>
              /\ ~e.raised
              /\ e.after = Append(e.before, p)
              /\ Len(e.toks) = 1
              /\ e.toks[1].type = "INDENT"
              /\ e.toks[1].value = p
              /\ Cardinality({ m \in 1..Len(out) :
                     out[m].lexpos = e.pos /\ out[m].type = "INDENT" }) <= 1
              /\ status = "done" => \E m \in 1..Len(out) : out[m] = e.toks[1]

\* A prefix two characters deeper than the top, its one INDENT returned.
C8_Witness ==
    \E k \in Entries("INDENT") : \E m \in 1..Len(out) :
        /\ Len(Prefix(scanned[k])) >= Len(Top(scanned[k].before)) + 2
        /\ StartsWith(Prefix(scanned[k]), Top(scanned[k].before))
        /\ out[m] = scanned[k].toks[1]
        /\ out[m].type = "INDENT"

NoAdjacentText ==
    \A m \in 1..(Len(out) - 1) :
        ~(out[m].type = "PLAINTEXT" /\ out[m + 1].type = "PLAINTEXT")

\* C9 (as claimed): the stream never holds two PLAINTEXT tokens in a row,
\* and every maximal run of adjacent plain-text pieces the rule functions
\* produced is delivered as one PLAINTEXT token whose value is their
\* concatenation and whose position is that of the first piece.
C9_EveryRunDeliveredWhole ==
    /\ NoAdjacentText
    /\ status = "done" => out = Coalesce(Raw)

\* C9 (amended): the stream never holds two PLAINTEXT tokens in a row, and
\* every maximal run of adjacent plain-text pieces left once the blank
\* pieces directly after a comment, multiline comment, code block or math
\* block are dropped is delivered as one PLAINTEXT token whose value is
\* their concatenation and whose position is that of the first piece left.
C9_KeptRunsDeliveredWhole ==
    /\ NoAdjacentText
    /\ status = "done" => out = Coalesce(DropBlankAfterSkip(Raw, FALSE))

\* Two adjacent plain-text pieces, the second one a newline run, delivered
\* as one token at the first piece's position.
C9_Witness ==
    /\ status = "done"
    /\ \E m \in 1..Len(out) : \E r \in 1..(Len(Raw) - 1) :
          /\ out[m].type = "PLAINTEXT"
          /\ Raw[r].type = "PLAINTEXT" /\ Raw[r + 1].type = "PLAINTEXT"
          /\ Raw[r + 1].value[1] = NL
          /\ out[m].lexpos = Raw[r].lexpos
          /\ out[m].column = Raw[r].column
          /\ out[m].value = Raw[r].value \o Raw[r + 1].value

\* C10: the token that leaves the lexer directly after a COMMENT,
\* MULTILINECOMMENT, CODEBLOCK or MULTILINEMATH token is never blank
\* PLAINTEXT; the first INDENT, DEDENT or non-blank text piece produced
\* after such a token is the start of the token returned right after it.
C10_NoBlankTextAfterSkip ==
    /\ \A m \in 1..Len(out) :
          (out[m].type \in SkipTypes /\ HasFollower(m)) => ~BlankText(Follower(m))
    /\ status = "done" =>
          \A r \in 1..Len(Raw) : \A r2 \in (r + 1)..Len(Raw) :
              ( /\ Raw[r].type \in SkipTypes
                /\ \A j \in (r + 1)..(r2 - 1) : BlankText(Raw[j])
                /\ \/ Raw[r2].type \in {"INDENT", "DEDENT"}
                   \/ Raw[r2].type = "PLAINTEXT" /\ ~IsBlank(Raw[r2].value) )
              => \E m \in 1..(Len(out) - 1) :
                    /\ out[m] = Raw[r]
                    /\ out[m + 1].type = Raw[r2].type
                    /\ out[m + 1].lexpos = Raw[r2].lexpos
                    /\ StartsWith(out[m + 1].value, Raw[r2].value)

\* A comment, a blank newline run produced after it, and the text after the
\* run returned directly after the comment.
C10_Witness ==
    \E m \in 1..(Len(out) - 1) : \E r \in 1..(Len(Raw) - 2) :
        /\ out[m].type = "COMMENT"
        /\ Raw[r] = out[m]
        /\ BlankText(Raw[r + 1])
        /\ Raw[r + 2] = out[m + 1]
        /\ out[m + 1].type = "PLAINTEXT"

\* C11: whatever the calls before it left in the reused lexer, a parse call
\* starts from indentation stack [''], an empty queue, no last and
\* before-last token, line 1 and the cursor at 0, and at every token it is
\* in the state a freshly constructed lexer is in after as many tokens of
\* the same text: it returns the same tokens, and then the same end or the
\* same error.
C11_ParseDependsOnlyOnText ==
    status # "new" =>
        Here = RunTo(Fresh, Len(out) + (IF status = "lexing" THEN 0 ELSE 1))

\* A call that ran to its end on a text that opens a level, after a call
\* that was left with levels open or tokens pending.
C11_Witness ==
    /\ prior = "open"
    /\ status = "done"
    /\ NumOf(out, "INDENT") >= 1

\* The run of token() calls on the text the lexer holds when nothing else
\* touches the lexer, to its end or its error.
Alone == RunTo(Fresh, 3 * Len(inp) + 2)

\* C12 (as claimed): when calls of the module-level parse() are
\* interleaved, each call gets the tokens, and the end or the error, that
\* it gets when it runs alone.  Stated for the calls whose text is the one
\* the lexer holds (the calls on the text that was handed over last).
C12_InterleavedCallsAsAlone ==
    \A c \in Callers :
        (calls[c].st \in {"done", "error"} /\ calls[c].s = inp) =>
            /\ calls[c].out = Alone.out
            /\ calls[c].st = Alone.status

\* The bullet values of the items handed to p_list, in source order.
BulletsOf(l) == [k \in 1..Len(l) |-> l[k][1].value]

\* C13: for a list with literal bullet values b1..bn, List.bullets is the
\* one value when all bi are equal, and otherwise the sequence b1..bn in
\* source order, as long as List.items, with the integers as written.
C13_BulletsScalarOrPerItem ==
    prod.rule = "list" =>
        LET b == BulletsOf(prod.p[1])
        IN  /\ prod.exc = ""
            /\ prod.p0.node = "List"
            /\ Len(prod.p0.items) = Len(b)
            /\ IF \A j, k \in 1..Len(b) : b[j] = b[k]
               THEN prod.p0.bullets = Scalar(b[1])
               ELSE /\ prod.p0.bullets = PerItem(b)
                    /\ Len(prod.p0.bullets.values) = Len(prod.p0.items)

\* The list 1. 2. 1. : first and last bullet equal, the middle one not, and
\* the numbers kept as written.
C13_Witness ==
    /\ prod.rule = "list"
    /\ ~prod.p0.bullets.scalar
    /\ prod.p0.bullets.values = <<Num(1), Num(2), Num(1)>>

IsTable == prod.rule \in {"table_plain", "table_info"} /\ prod.exc = ""

\* C14 (as claimed): in every Table node every row has as many cells as
\* rows[0].
C14_RowsSameLength ==
    IsTable =>
        \A k \in 1..Len(prod.p0.rows) :
            Len(prod.p0.rows[k]) = Len(prod.p0.rows[1])

\* The stripped, non-blank lines of the metadata text handed to
\* p_table_info, and the list items handed to either table rule.
MetaLines ==
    IF prod.rule # "table_info" THEN <<>>
    ELSE SelectSeq([k \in 1..Len(SplitLines(prod.p[2].value)) |->
                       Strip(SplitLines(prod.p[2].value)[k])],
                   LAMBDA line : line # <<>>)

TableItems == prod.p[Len(prod.p)]

\* The key and the value of a metadata line "key = value".
HasEquals(line) == \E k \in 1..Len(line) : line[k] = "="
KeyOf(line) == Strip(Slice(line, 0, FindFirst(line, 0, {"="})))
ValueOf(line) == Strip(Slice(line, FindFirst(line, 0, {"="}) + 1, Len(line)))
Words(v) == SelectSeq(v, LAMBDA a : a # " ")

\* The cases in which a table is said to be a syntax error.
UnknownKey ==
    \E k \in 1..Len(MetaLines) :
        HasEquals(MetaLines[k]) /\
        KeyOf(MetaLines[k]) \notin { <<"widths">>, <<"header_rows">>, <<"header_cols">> }

DuplicateKey ==
    \E j, k \in 1..Len(MetaLines) :
        /\ j < k
        /\ HasEquals(MetaLines[j]) /\ HasEquals(MetaLines[k])
        /\ KeyOf(MetaLines[j]) = KeyOf(MetaLines[k])

NoEquals == \E k \in 1..Len(MetaLines) : ~HasEquals(MetaLines[k])

BadNumber ==
    \E k \in 1..Len(MetaLines) :
        /\ HasEquals(MetaLines[k])
        /\ \/ /\ KeyOf(MetaLines[k]) \in { <<"header_rows">>, <<"header_cols">> }
              /\ ~(Len(ValueOf(MetaLines[k])) = 1 /\ ValueOf(MetaLines[k])[1] \in Numbers)
           \/ /\ KeyOf(MetaLines[k]) = <<"widths">>
              /\ ValueOf(MetaLines[k]) # <<"auto">>
              /\ \E j \in 1..Len(Words(ValueOf(MetaLines[k]))) :
                    \/ Words(ValueOf(MetaLines[k]))[j] \notin Numbers
                    \/ NumberOf(Words(ValueOf(MetaLines[k]))[j]) < 0

BadRow ==
    \E k \in 1..Len(TableItems) :
        ~(Len(TableItems[k]) = 2 /\ TableItems[k][2].node = "List")

\* C15 (as claimed): a table with an unknown metadata key, a key that
\* appears twice, a metadata line without "=", a header_rows or header_cols
\* value that is no integer, a widths entry that is no number or is
\* negative, or a row item that is not exactly one nested List raises a
\* SyntaxError and gives no Table.
C15_BadTableIsSyntaxError ==
    (prod.rule \in {"table_plain", "table_info"}
        /\ (UnknownKey \/ DuplicateKey \/ NoEquals \/ BadNumber \/ BadRow))
    => prod.exc = "SyntaxError" /\ prod.p0 = <<>>

\* C16 (as claimed): the metadata line "widths = auto" over rows that are
\* lists is accepted and gives Table.widths = 'auto'.
C16_WidthsAutoAccepted ==
    (prod.rule = "table_info" /\ ~BadRow
        /\ MetaLines = << <<"widths", " ", "=", " ", "auto">> >>)
    => prod.exc = "" /\ prod.p0.widths = Auto

\* C17 (as claimed): a widths value that is a list of non-negative numbers
\* n1..nk gives the widths n1/T..nk/T, T their sum, as many and in the same
\* order, summing to 1, or a SyntaxError; nothing else.
C17_WidthsNormalizedOrSyntaxError ==
    (prod.rule = "table_info" /\ ~BadRow /\ Len(MetaLines) = 1
        /\ HasEquals(MetaLines[1]) /\ KeyOf(MetaLines[1]) = <<"widths">>
        /\ Words(ValueOf(MetaLines[1])) # <<>>
        /\ \A j \in 1..Len(Words(ValueOf(MetaLines[1]))) :
              /\ Words(ValueOf(MetaLines[1]))[j] \in Numbers
              /\ NumberOf(Words(ValueOf(MetaLines[1]))[j]) >= 0)
    => \/ prod.exc = "SyntaxError"
       \/ /\ prod.exc = ""
          /\ ~prod.p0.widths.auto
          /\ Len(prod.p0.widths.w) = Len(Words(ValueOf(MetaLines[1])))
          /\ \A j \in 1..Len(prod.p0.widths.w) :
                /\ prod.p0.widths.w[j].num = NumberOf(Words(ValueOf(MetaLines[1]))[j])
                /\ prod.p0.widths.w[j].den > 0
                /\ prod.p0.widths.w[j].den =
                      Sum([i \in 1..Len(prod.p0.widths.w) |-> prod.p0.widths.w[i].num])

----------------------------------------------------------------------------
(* The headers of rend and with blocks.                                    *)

\* The pieces header texts are built from: the two reserved words, names
\* after one blank and after two, the double colon and a newline.
HeadChunks ==
    { <<"r", "e", "n", "d">>, <<"w", "i", "t", "h">>,
      <<" ", "a">>, <<" ", "b">>, <<" ", " ", "b">>,
      <<":", ":">>, <<NL>> }

HeadInputs ==
    { Concat(cs) : cs \in UNION { [1..n -> HeadChunks] : n \in 0..MaxHeadChunks } }

\* Lexer.input(s) with a text of header pieces.
InputHead ==
    /\ status = "new"
    /\ \E s \in HeadInputs : inp' = s
    /\ lexpos' = 0
    /\ status' = "lexing"
    /\ UNCHANGED <<lineno, indents, queue, last, beforelast, err, out, scanned, prior>>
    /\ UNCHANGED others

NextHead == InputHead \/ TokenReturn \/ TokenEnd \/ TokenRaise

SpecHead == Init /\ [][NextHead]_vars

\* A run of blanks longer than one in the text v.
WideSeparator(v) == \E k \in 1..(Len(v) - 1) : v[k] = " " /\ v[k + 1] = " "

\* The names written in the header text v, between its reserved word and
\* its double colon.
NamesIn(v) ==
    LET w == SubSeq(v, 5, Len(v) - 2)
    IN  { SubSeq(w, i, j) : <<i, j>> \in
            { x \in (1..Len(w)) \X (1..Len(w)) :
                /\ x[1] <= x[2]
                /\ \A k \in x[1]..x[2] : w[k] # " "
                /\ x[1] = 1 \/ w[x[1] - 1] = " "
                /\ x[2] = Len(w) \/ w[x[2] + 1] = " " } }

\* C20: every rend or with header the scanner comes to that has a
\* separator of more than one blank makes token() raise, and the call ends
\* in the SyntaxError with no token for the header; every header whose
\* separators are single blanks gives its token, a REND token whose value is
\* the set of the names written and a WITH token whose value is the name
\* written (the empty string when there is none).
C20_WideSeparatorIsSyntaxError ==
    /\ \A k \in Entries("REND") \cup Entries("WITH") :
          /\ scanned[k].raised <=> WideSeparator(scanned[k].text)
          /\ scanned[k].raised => k = Len(scanned) /\ status = "error"
          /\ ~scanned[k].raised => Len(scanned[k].toks) = 1
    /\ \A k \in Entries("REND") :
          ~scanned[k].raised =>
              scanned[k].toks[1].value = NamesIn(scanned[k].text)
    /\ \A k \in Entries("WITH") :
          ~scanned[k].raised =>
              \/ /\ NamesIn(scanned[k].text) = {}
                 /\ scanned[k].toks[1].value = <<>>
              \/ NamesIn(scanned[k].text) = { scanned[k].toks[1].value }
    /\ (status \in {"done", "error"} /\ MatchREND(inp, 0) # -1) =>
          IF WideSeparator(Slice(inp, 0, MatchREND(inp, 0)))
          THEN status = "error" /\ out = <<>>
          ELSE out # <<>> /\ out[1].type = "REND"
    /\ (status \in {"done", "error"} /\ MatchWITH(inp, 0) # -1) =>
          IF WideSeparator(Slice(inp, 0, MatchWITH(inp, 0)))
          THEN status = "error" /\ out = <<>>
          ELSE out # <<>> /\ out[1].type = "WITH"

\* A rend header of two targets whose second separator is two blanks has
\* raised.
C20_Witness ==
    /\ status = "error"
    /\ \E k \in Entries("REND") :
          /\ scanned[k].raised
          /\ scanned[k].text = <<"r", "e", "n", "d", " ", "a", " ", " ", "b", ":", ":">>

----------------------------------------------------------------------------
(* With blocks: the productions of nodedent and Parser.p_with.             *)
(*                                                                         *)
(* ply.yacc builds an LALR(1) table from the productions and runs it over  *)
(* the tokens of Lexer.token().  On a shift/reduce conflict it shifts, no  *)
(* precedence being declared; on a reduce/reduce conflict it takes the     *)
(* production written first.  For the productions of withblock that gives: *)
(* an INDENT is always shifted as the opening of                           *)
(*     nodedent : INDENT any_dedent_toks DEDENT                            *)
(* (never reduced as the one-token nodedent, the next token being shifted  *)
(* in its place); a DEDENT that comes straight after that INDENT is        *)
(* shifted as any_dedent_tok : DEDENT, the only item with a DEDENT there;  *)
(* a DEDENT that comes after one or more any_dedent_tok is reduced with    *)
(* the INDENT as nodedent, that production standing before                 *)
(* any_dedent_tok : DEDENT.  The parser's stack is kept as frames: the     *)
(* number of nodedents after with_tok indent_tok at the bottom, and above  *)
(* it the number of any_dedent_toks after each INDENT that is open.        *)

\* A text of the pieces after the header "with::": lines of the block at
\* two blanks, a deeper line, lines of blanks only, an empty line, a line
\* at the margin and a line that starts with a tab.
WithChunks ==
    { <<NL, " ", " ", "a">>, <<NL, " ", " ", " ", " ", "b">>,
      <<NL, " ", " ", " ">>, <<NL, " ", " ">>, <<NL>>, <<NL, "c">>,
      <<NL, TAB, "b">> }

WithHeader == <<"w", "i", "t", "h", ":", ":">>

\* The text d with s put after each of its newlines.
RECURSIVE Shifted(_, _)
Shifted(d, s) ==
    IF d = <<>> THEN <<>>
    ELSE IF Head(d) = NL THEN <<NL>> \o s \o Shifted(Tail(d), s)
    ELSE <<Head(d)>> \o Shifted(Tail(d), s)

\* The document d as the body of a rend block.
Enclosed(d) == <<"r", "e", "n", "d", " ", "a", ":", ":">> \o Shifted(<<NL>> \o d, <<" ", " ">>)

WithInputs ==
    LET D == { WithHeader \o Concat(cs) :
                 cs \in UNION { [1..n -> WithChunks] : n \in 0..MaxWithChunks } }
    IN  D \cup { Enclosed(d) : d \in D }

\* The first WITH token of the tokens, 0 when there is none.
WithAt(toks) ==
    LET I == { k \in 1..Len(toks) : toks[k].type = "WITH" }
    IN  IF I = {} THEN 0 ELSE Min(I)

\* One more nodedent or any_dedent_tok in the frame on top.
Counted(frames) == [frames EXCEPT ![Len(frames)] = @ + 1]

\* nodedent : <a token other than DEDENT and INDENT>
p_nodedent_base(frames) == Counted(frames)

\* nodedent : INDENT any_dedent_toks DEDENT, reduced when the DEDENT is
\* shifted: the frame of the INDENT goes and the frame below counts one
\* more.
p_nodedent_any(frames) == Counted(Pop(frames))

\* any_dedent_tok : DEDENT
p_any_dedent_tok(frames) == Counted(frames)

\* The table run over toks from token k on; closed is the DEDENT shifted
\* for dedent_tok, 0 when p_error is called first, and at is then the token
\* the table has no entry for, 0 for the end of the tokens.
RECURSIVE nodedent(_, _, _)
nodedent(toks, k, frames) ==
    IF k > Len(toks) THEN [closed |-> 0, at |-> 0]
    ELSE IF toks[k].type = "INDENT" THEN nodedent(toks, k + 1, Append(frames, 0))
    ELSE IF toks[k].type # "DEDENT" THEN nodedent(toks, k + 1, p_nodedent_base(frames))
    ELSE IF Len(frames) = 1
    THEN IF frames[1] = 0 THEN [closed |-> 0, at |-> k]
         ELSE [closed |-> k, at |-> 0]
    ELSE IF Top(frames) = 0 THEN nodedent(toks, k + 1, p_any_dedent_tok(frames))
    ELSE nodedent(toks, k + 1, p_nodedent_any(frames))

\* The tokens that can come after a block, "$end" being the end of the
\* tokens: those a block starts with, and those that close the blocks, list
\* items and macros a block can stand in.  The table reduces dedent_tok and
\* withblock only before one of them.
AfterBlock ==
    { "$end", "CODEBLOCK", "COMMENT", "DEDENT", "DOUBLEDASH", "DOUBLELBRACE",
      "DOUBLERBRACE", "DOUBLESTAR", "DOUBLETILDE", "DOUBLEUNDER", "INLINECODE",
      "INLINEMATH", "LBRACEPERCENT", "LBRACEPERCENTRBRACE", "LISTBULLET",
      "MULTILINECOMMENT", "MULTILINEMATH", "PERCENTRBRACE", "PLAINTEXT", "REND",
      "TABLE", "WITH" }

\* The type of the token after token k.
Lookahead(toks, k) == IF k + 1 > Len(toks) THEN "$end" ELSE toks[k + 1].type

\* The reduction by withblock after the DEDENT r.closed was shifted.
Closing(toks, r) ==
    IF r.closed = 0 \/ Lookahead(toks, r.closed) \in AfterBlock THEN r
    ELSE [closed |-> 0, at |-> r.closed + 1]

\* withblock : with_tok indent_tok nodedent dedent_tok over the tokens from
\* the WITH token w on.
withblock(toks, w) ==
    IF w + 1 > Len(toks) THEN [closed |-> 0, at |-> 0]
    ELSE IF toks[w + 1].type # "INDENT" THEN [closed |-> 0, at |-> w + 1]
    ELSE Closing(toks, nodedent(toks, w + 2, <<0>>))

\* s.split('\n')
RECURSIVE SplitNL(_)
SplitNL(s) ==
    IF FindFirst(s, 0, {NL}) = -1 THEN <<s>>
    ELSE <<Slice(s, 0, FindFirst(s, 0, {NL}))>>
             \o SplitNL(Slice(s, FindFirst(s, 0, {NL}) + 1, Len(s)))

\* s.strip('\n')
StripNL(s) ==
    LET I == { k \in 1..Len(s) : s[k] # NL }
    IN  IF I = {} THEN <<>> ELSE SubSeq(s, Min(I), Max(I))

\* textwrap.dedent, first step: a line of blanks and tabs only is emptied.
WhitespaceOnly(line) == line # <<>> /\ \A k \in 1..Len(line) : line[k] \in {" ", TAB}

\* textwrap.dedent, the margin: the leading blanks and tabs of the first
\* line that holds another character, cut for each later such line to
\* what the two have in common.
RECURSIVE Margin(_, _, _)
Margin(lines, margin, found) ==
    IF lines = <<>> THEN margin
    ELSE LET line   == Head(lines)
             indent == Slice(line, 0, SpanWhile(line, 0, {" ", TAB}))
             same   == { n \in 0..Len(margin) :
                           n <= Len(indent) /\ Slice(margin, 0, n) = Slice(indent, 0, n) }
         IN  IF line = <<>> \/ WhitespaceOnly(line) THEN Margin(Tail(lines), margin, found)
             ELSE IF ~found THEN Margin(Tail(lines), indent, TRUE)
             ELSE Margin(Tail(lines), Slice(margin, 0, Max(same)), TRUE)

\* textwrap.dedent
dedent(text) ==
    LET lines  == [k \in 1..Len(SplitNL(text)) |->
                      IF WhitespaceOnly(SplitNL(text)[k]) THEN <<>> ELSE SplitNL(text)[k]]
        margin == Margin(lines, <<>>, FALSE)
    IN  Join([k \in 1..Len(lines) |->
                 IF margin # <<>> /\ StartsWith(lines[k], margin)
                 THEN Slice(lines[k], Len(margin), Len(lines[k]))
                 ELSE lines[k]])

With(line, column, ctx, text) ==
    [node |-> "With", lineno |-> line, column |-> column, ctx |-> ctx, text |-> text]

\* Parser.p_with: p1 the WITH token, p2 the INDENT token, p4 the DEDENT
\* token of dedent_tok.
p_with(p1, p2, p4) ==
    Value(With(p1.lineno, p1.column, p1.value,
               dedent(StripNL(Slice(inp, p2.lexpos, p4.lexpos)))))

\* Parser.p_error with the token the table has no entry for, or None (at =
\* 0) at the end of the tokens, where _parse_error takes the line and the
\* column of the token before the last one token() gave.  A token that was
\* never given a column has no attribute of that name.
p_error(toks, at) ==
    IF toks[IF at = 0 THEN Len(toks) ELSE at].column = 0
    THEN Raise("AttributeError", "'LexToken' object has no attribute 'column'")
    ELSE parse_error(IF at = 0 THEN "no further code" ELSE "code")

\* Lexer.input(s) with a document that holds a with block.
InputWith ==
    /\ status = "new"
    /\ \E s \in WithInputs : inp' = s
    /\ lexpos' = 0
    /\ status' = "lexing"
    /\ UNCHANGED <<lineno, indents, queue, last, beforelast, err, out, scanned, prior>>
    /\ UNCHANGED others

\* yacc coming to the end of the with block in the tokens of the document:
\* the reduction by withblock, or p_error.
Reduce_with ==
    /\ prod = NoProd
    /\ status = "done"
    /\ WithAt(out) # 0
    /\ LET w == WithAt(out)
           r == withblock(out, w)
       IN  IF r.closed = 0
           THEN Reduce("with", <<out[w]>>, p_error(out, r.at))
           ELSE Reduce("with", <<out[w], out[w + 1], out[r.closed]>>,
                       p_with(out[w], out[w + 1], out[r.closed]))

NextWith == InputWith \/ TokenReturn \/ TokenEnd \/ TokenRaise \/ Reduce_with

SpecWith == Init /\ [][NextWith]_vars

\* The DEDENT that closes the level the INDENT at token k opened: the first
\* token after it before which as many levels were closed as were opened.
OwnDedent(toks, k) ==
    LET Opened(j) == Cardinality({ m \in (k + 1)..(j - 1) : toks[m].type = "INDENT" })
        Shut(j)   == Cardinality({ m \in (k + 1)..(j - 1) : toks[m].type = "DEDENT" })
        I == { j \in (k + 1)..Len(toks) :
                 toks[j].type = "DEDENT" /\ Opened(j) = Shut(j) }
    IN  IF I = {} THEN 0 ELSE Min(I)

\* A with block whose payload starts with a line of text: WITH, INDENT and
\* a text token.
WithPayload ==
    /\ prod.rule = "with"
    /\ Len(out) >= WithAt(out) + 2
    /\ out[WithAt(out) + 1].type = "INDENT"
    /\ out[WithAt(out) + 2].type = "PLAINTEXT"

\* C18 (as claimed): a with block's payload extends up to the DEDENT that
\* closes the block's own opening INDENT: the block is reduced, and the
\* DEDENT taken for its end is that one, neither an earlier DEDENT of a
\* deeper line nor a later one of an enclosing block.
C18_WithEndsAtOwnDedent ==
    WithPayload =>
        /\ prod.exc = ""
        /\ withblock(out, WithAt(out)).closed = OwnDedent(out, WithAt(out) + 1)

\* The lines of the source between the block's INDENT and the DEDENT that
\* closes it, surrounding newlines stripped.
SourceLines ==
    SplitNL(StripNL(Slice(inp, out[WithAt(out) + 1].lexpos,
                          out[OwnDedent(out, WithAt(out) + 1)].lexpos)))

\* C19 (as claimed): With.text is the source between the block's INDENT
\* and DEDENT with the surrounding newlines stripped and one common prefix
\* of blanks taken from its lines, empty lines staying empty: no other
\* character is changed, so putting the prefix back gives the source lines.
C19_WithTextVerbatim ==
    (WithPayload /\ prod.exc = "") =>
        LET lines == SplitNL(prod.p0.text)
        IN  /\ Len(lines) = Len(SourceLines)
            /\ \E n \in 0..Len(SourceLines[1]) :
                  \A k \in 1..Len(lines) :
                      \/ SourceLines[k] = Slice(SourceLines[1], 0, n) \o lines[k]
                      \/ SourceLines[k] = <<>> /\ lines[k] = <<>>

----------------------------------------------------------------------------
(* ply.yacc's parse loop over the lexer, on documents of inline spans and  *)
(* rend blocks: the <name>_tok rules and the nodes placed by their tokens. *)

MaxSpanChunks == 3

\* The pieces the documents are made of.
SpanChunks ==
    { <<"*", "*", "a", "*", "*">>,
      <<"*", "*">>,
      <<"~", "~">>,
      <<"a">>,
      <<"r", "e", "n", "d", " ", "a", ":", ":", NL, " ", " ">>,
      <<NL>> }

SpanInputs ==
    { Concat(cs) : cs \in UNION { [1..n -> SpanChunks] : n \in 1..MaxSpanChunks } }

\* p[1] of a production whose <name>_tok rule has not run yet.
Unset == [type |-> "unset"]

\* The end marker ply.yacc takes for a token() of None.
End == [type |-> "$end"]

\* A symbol of the parser's stack: the token that was shifted for the
\* opening of a construct, p[1] as the <name>_tok rule handed it, whether
\* the INDENT of a rend block was shifted, whether the construct has a body
\* and whether its closing token was shifted.
Frame(tok) ==
    [tok |-> tok, val |-> Unset, ind |-> FALSE, body |-> FALSE, closing |-> FALSE]

\* Parser.parse: Lexer.input(s) by ply.yacc's parse(), on a reset lexer.
InputSpan ==
    /\ status = "new"
    /\ yacc.st = "idle"
    /\ \E s \in SpanInputs : inp' = s
    /\ lexpos' = 0
    /\ status' = "lexing"
    /\ yacc' = [yacc EXCEPT !.st = "run"]
    /\ UNCHANGED <<lineno, indents, queue, last, beforelast, err, out, scanned, prior>>
    /\ UNCHANGED <<calls, prod, pair, walk, trav, evis, assets>>

\* The lookahead token of the parse loop: the token after the yacc.n that
\* were shifted, once token() was called for it.
HasLookahead == Len(out) + (IF status = "done" THEN 1 ELSE 0) > yacc.n
lookahead == IF Len(out) > yacc.n THEN out[yacc.n + 1] ELSE End

StackTop == yacc.stack[Len(yacc.stack)]
InTokState == yacc.stack # <<>> /\ StackTop.val = Unset
InClosedState == yacc.stack # <<>> /\ StackTop.closing
InBodyState == ~InTokState /\ ~InClosedState

SpanTypes == {"DOUBLESTAR", "DOUBLETILDE"}

\* The lookaheads of the parser's table in the state after the terminal of
\* a <name>_tok rule was shifted: the tokens on which the rule is reduced.
TokActions(type) ==
    CASE type = "REND"       -> {"INDENT"}
      [] type \in SpanTypes  -> {"PLAINTEXT"} \cup (SpanTypes \ {type})
      [] OTHER               -> {"PLAINTEXT", "REND", "INDENT", "DEDENT", "$end"}
                                    \cup SpanTypes

\* ply.yacc's defaulted_states: a state whose only action is one reduction
\* is reduced before any lookahead is read.
defaulted_states(type) == Cardinality(TokActions(type)) = 1

\* tokfunc of Parser._tok_rule with s, t of _yacc_lookahead_token.
tokfunc_LastOnly(uprule, s, t) ==
    IF t # None /\ t.type = uprule THEN Value(t)
    ELSE Raise("TypeError", "token not found")
tokfunc(uprule, s, t) ==
    IF s # None /\ s.type = uprule THEN Value(s)
    ELSE IF t # None /\ t.type = uprule THEN Value(t)
    ELSE Raise("TypeError", "token not found")

\* The node classes of the productions.
NodeOf(type) ==
    CASE type = "DOUBLESTAR"  -> "Bold"
      [] type = "DOUBLETILDE" -> "Italics"
      [] type = "REND"        -> "RenderFor"
      [] OTHER                -> "PlainText"

\* Bold(lineno=p1.lineno, column=p1.column, ...) and the like, with the
\* token that was shifted for p[1].
MakeNode(f) ==
    [node |-> NodeOf(f.tok.type), lineno |-> f.val.lineno, column |-> f.val.column,
     first |-> f.tok]

\* The stack with its top symbol replaced, and with the top symbol reduced
\* into the body of the one below.
SetTop(f) == [yacc.stack EXCEPT ![Len(yacc.stack)] = f]
Below == SubSeq(yacc.stack, 1, Len(yacc.stack) - 1)
Reduced ==
    IF Below = <<>> THEN <<>>
    ELSE [Below EXCEPT ![Len(Below)] = [@ EXCEPT !.body = TRUE]]

\* The parse loop asking the lexer for the lookahead: never in a defaulted
\* state.
NeedsToken ==
    /\ yacc.st = "run"
    /\ ~HasLookahead
    /\ ~(InTokState /\ defaulted_states(StackTop.tok.type))

YaccToken == NeedsToken /\ TokenReturn

YaccEnd == NeedsToken /\ TokenEnd

\* The reduction by <name>_tok : NAME in the state after NAME was shifted;
\* for a text token the reduction by the entry rule follows, which builds
\* the PlainText node where the table has the lookahead.
Reduce_tok ==
    /\ yacc.st = "run"
    /\ InTokState
    /\ LET type == StackTop.tok.type
           R == tokfunc(type, beforelast, last)
           E == [rule |-> type, exc |-> R.exc, val |-> R.p0, tok |-> StackTop.tok]
           f == [StackTop EXCEPT !.val = R.p0]
       IN  /\ \/ defaulted_states(type)
              \/ HasLookahead /\ lookahead.type \in TokActions(type)
           /\ yacc' =
                IF R.exc # ""
                THEN [yacc EXCEPT !.st = "error", !.toks = Append(@, E)]
                ELSE IF type # "PLAINTEXT"
                THEN [yacc EXCEPT !.stack = SetTop(f), !.toks = Append(@, E)]
                ELSE IF Below # <<>> /\ Below[Len(Below)].tok.type \in SpanTypes
                        /\ lookahead.type \notin {"PLAINTEXT"} \cup SpanTypes
                THEN [yacc EXCEPT !.st = "error", !.toks = Append(@, E)]
                ELSE [yacc EXCEPT !.stack = Reduced, !.toks = Append(@, E),
                                  !.nodes = Append(@, MakeNode(f))]
    /\ UNCHANGED but_yacc

\* What the table has for the lookahead in a state inside a body: "open"
\* (shift the first token of a construct), "close" (shift the closing token
\* of the construct on top), "indent" (shift the INDENT of a rend block),
\* "accept", or "error".
BodyAction(type) ==
    LET top == StackTop
        AtBlocks == yacc.stack = <<>> \/ (top.tok.type = "REND" /\ top.ind)
        InSpan == yacc.stack # <<>> /\ top.tok.type \in SpanTypes
    IN  CASE type = "PLAINTEXT" ->
               IF AtBlocks \/ InSpan THEN "open" ELSE "error"
          [] type \in SpanTypes ->
               IF AtBlocks THEN "open"
               ELSE IF InSpan /\ top.tok.type # type THEN "open"
               ELSE IF InSpan /\ top.body THEN "close"
               ELSE "error"
          [] type = "REND" -> IF AtBlocks THEN "open" ELSE "error"
          [] type = "INDENT" ->
               IF yacc.stack # <<>> /\ top.tok.type = "REND" /\ ~top.ind
               THEN "indent" ELSE "error"
          [] type = "DEDENT" ->
               IF yacc.stack # <<>> /\ top.tok.type = "REND" /\ top.ind /\ top.body
               THEN "close" ELSE "error"
          [] OTHER -> IF yacc.stack = <<>> THEN "accept" ELSE "error"

\* The parse loop shifting the lookahead.
Shift ==
    /\ yacc.st = "run"
    /\ InBodyState
    /\ HasLookahead
    /\ LET a == BodyAction(lookahead.type)
       IN  /\ a \in {"open", "close", "indent"}
           /\ yacc' = [yacc EXCEPT
                 !.n = @ + 1,
                 !.stack = CASE a = "open"  -> Append(@, Frame(lookahead))
                             [] a = "close" -> SetTop([StackTop EXCEPT !.closing = TRUE])
                             [] OTHER       -> SetTop([StackTop EXCEPT !.ind = TRUE])]
    /\ UNCHANGED but_yacc

\* The reduction by bold, italics or rendblock after the closing token:
\* p_bold, p_italics, p_rendblock place the node at p[1].
Reduce_node ==
    /\ yacc.st = "run"
    /\ InClosedState
    /\ HasLookahead
    /\ yacc' =
         IF StackTop.tok.type = "REND" /\ lookahead.type = "INDENT"
         THEN [yacc EXCEPT !.st = "error"]
         ELSE [yacc EXCEPT !.stack = Reduced, !.nodes = Append(@, MakeNode(StackTop))]
    /\ UNCHANGED but_yacc

\* The end of the tokens with every construct closed.
Accept ==
    /\ yacc.st = "run"
    /\ InBodyState
    /\ HasLookahead
    /\ BodyAction(lookahead.type) = "accept"
    /\ yacc' = [yacc EXCEPT !.st = "accept"]
    /\ UNCHANGED but_yacc

\* A lookahead the table has no action for: Parser.p_error raises.
YaccError ==
    /\ yacc.st = "run"
    /\ HasLookahead
    /\ \/ InBodyState /\ BodyAction(lookahead.type) = "error"
       \/ /\ InTokState
          /\ ~defaulted_states(StackTop.tok.type)
          /\ lookahead.type \notin TokActions(StackTop.tok.type)
    /\ yacc' = [yacc EXCEPT !.st = "error"]
    /\ UNCHANGED but_yacc

NextSpan ==
    \/ InputSpan \/ YaccToken \/ YaccEnd \/ Shift \/ Reduce_tok \/ Reduce_node
    \/ Accept \/ YaccError

SpecSpan == Init /\ [][NextSpan]_vars

\* C21: the token a <name>_tok rule hands to its production is the token
\* that was shifted for the rule, whichever of the lexer's before-last and
\* last tokens it is, and every node built from it has the line and the
\* column of that token, its own first token: a Bold is placed at its own
\* opening delimiter also when the token before it is the closing delimiter
\* of another Bold.
C21_NodeAtOwnFirstToken ==
    /\ \A k \in 1..Len(yacc.toks) :
          yacc.toks[k].exc = "" /\ yacc.toks[k].val = yacc.toks[k].tok
    /\ \A k \in 1..Len(yacc.nodes) :
          /\ yacc.nodes[k].lineno = yacc.nodes[k].first.lineno
          /\ yacc.nodes[k].column = yacc.nodes[k].first.column

\* A Bold was built whose opening delimiter directly follows the closing
\* delimiter of the Bold before it.
C21_Witness ==
    \E k \in 1..Len(yacc.nodes) : \E j \in 1..Len(out) :
        /\ yacc.nodes[k].node = "Bold"
        /\ j > 1
        /\ out[j] = yacc.nodes[k].first
        /\ out[j - 1].type = "DOUBLESTAR"

----------------------------------------------------------------------------
(* Node.__init__ and Node.__eq__ (ast.py).                                 *)

\* The lines and columns nodes are made with.
MaxPos == 2

\* Python values held by nodes: str and list.  A node is a value too.
PyStr(s) == [kind |-> "str", s |-> s, items |-> <<>>]
PyList(items) == [kind |-> "list", s |-> "", items |-> items]

\* The attrs of the classes: name and default; list is a callable default,
\* called once for each node.
attrs(cls) ==
    CASE cls = "TextBlock" -> << <<"body", PyList(<<>>)>> >>
      [] cls = "With"      -> << <<"ctx", PyStr("")>>, <<"text", PyStr("")>> >>
      [] OTHER             -> << <<"text", PyStr("")>> >>

\* Node.__init__(self, *, lineno, column, **kwargs): the declared attrs are
\* popped from kwargs or take their default; what is left of kwargs is kept
\* as extra (an empty mapping stands for None).
Node_init(cls, line, col, kwargs) ==
    LET names == { attrs(cls)[k][1] : k \in 1..Len(attrs(cls)) }
    IN  [kind |-> "node", cls |-> cls, lineno |-> line, column |-> col,
         fields |-> [k \in 1..Len(attrs(cls)) |->
                        IF attrs(cls)[k][1] \in DOMAIN kwargs
                        THEN kwargs[attrs(cls)[k][1]]
                        ELSE attrs(cls)[k][2]],
         extra |-> [n \in (DOMAIN kwargs) \ names |-> kwargs[n]]]

\* Node.__eq__, and Python's == on the values of the fields: a list is
\* compared item by item with the == of the items.
RECURSIVE PyEq(_, _)
Node_eq_WithExtra(self, other) ==
    IF self.cls # other.cls THEN FALSE
    ELSE IF self.lineno # other.lineno THEN FALSE
    ELSE IF self.column # other.column THEN FALSE
    ELSE /\ \A k \in 1..Len(attrs(self.cls)) : PyEq(self.fields[k], other.fields[k])
         /\ self.extra = other.extra
Node_eq(self, other) ==
    IF self.cls # other.cls THEN FALSE
    ELSE IF self.lineno # other.lineno THEN FALSE
    ELSE IF self.column # other.column THEN FALSE
    ELSE \A k \in 1..Len(attrs(self.cls)) : PyEq(self.fields[k], other.fields[k])

PyEq(v, w) ==
    IF v.kind # w.kind THEN FALSE
    ELSE CASE v.kind = "str"  -> v.s = w.s
           [] v.kind = "list" ->
                /\ Len(v.items) = Len(w.items)
                /\ \A k \in 1..Len(v.items) : PyEq(v.items[k], w.items[k])
           [] OTHER           -> Node_eq(v, w)

\* Keyword arguments: none, declared ones, and ones no class declares.
NoKw == [n \in {} |-> PyStr("")]

TextKw ==
    { NoKw, "text" :> PyStr("x"), "meta" :> PyStr("x"), "meta" :> PyStr("y"),
      ("text" :> PyStr("x")) @@ ("meta" :> PyStr("x")) }

WithKw ==
    { NoKw, "ctx" :> PyStr("x"), "text" :> PyStr("x"),
      ("ctx" :> PyStr("x")) @@ ("text" :> PyStr("x")),
      ("ctx" :> PyStr("x")) @@ ("meta" :> PyStr("x")) }

Leaves == { Node_init("PlainText", 1, 1, kw) : kw \in TextKw }

BodyKw ==
    { NoKw, "meta" :> PyStr("x") }
        \cup { "body" :> PyList(<<n>>) : n \in Leaves }
        \cup { "body" :> PyList(<<n, n>>) : n \in Leaves }

KwOf(cls) ==
    CASE cls = "TextBlock" -> BodyKw
      [] cls = "With"      -> WithKw
      [] OTHER             -> TextKw

Classes == {"PlainText", "Comment", "With", "TextBlock"}

\* A node is made: the first, then the second.
NewNode ==
    /\ pair.b = <<>>
    /\ \E cls \in Classes : \E l \in 1..MaxPos : \E c \in 1..MaxPos :
       \E kw \in KwOf(cls) :
          pair' = IF pair.a = <<>>
                  THEN [pair EXCEPT !.a = <<Node_init(cls, l, c, kw)>>]
                  ELSE [pair EXCEPT !.b = <<Node_init(cls, l, c, kw)>>]
    /\ UNCHANGED but_pair

\* The two nodes are compared: a == b, b == a and a == a.
Compare ==
    /\ pair.b # <<>>
    /\ pair.res = <<>>
    /\ pair' = [pair EXCEPT !.res = << [ab |-> Node_eq(pair.a[1], pair.b[1]),
                                        ba |-> Node_eq(pair.b[1], pair.a[1]),
                                        aa |-> Node_eq(pair.a[1], pair.a[1])] >>]
    /\ UNCHANGED but_pair

NextNode == NewNode \/ Compare

SpecNode == Init /\ [][NextNode]_vars

\* A value without what was kept of undeclared keyword arguments, in it and
\* in the nodes it holds.
RECURSIVE Bare(_)
Bare(v) ==
    CASE v.kind = "node" ->
           [kind |-> "node", cls |-> v.cls, lineno |-> v.lineno, column |-> v.column,
            fields |-> [k \in DOMAIN v.fields |-> Bare(v.fields[k])]]
      [] v.kind = "list" ->
           [kind |-> "list", items |-> [k \in DOMAIN v.items |-> Bare(v.items[k])]]
      [] OTHER -> v

\* C22: two nodes are equal exactly when they have the same concrete type,
\* the same lineno and column and equal declared fields; keyword arguments
\* beyond the declared fields never count; equality is symmetric and
\* reflexive.
C22_NodeEquality ==
    pair.res # <<>> =>
        LET a == pair.a[1]
            b == pair.b[1]
        IN  /\ pair.res[1].ab <=>
                  /\ a.cls = b.cls
                  /\ a.lineno = b.lineno
                  /\ a.column = b.column
                  /\ \A k \in DOMAIN a.fields : Bare(a.fields[k]) = Bare(b.fields[k])
            /\ pair.res[1].ab = pair.res[1].ba
            /\ pair.res[1].aa

\* Two nodes that came out equal although their extra keyword arguments,
\* or those of the nodes in their bodies, differ.
C22_Witness ==
    /\ pair.res # <<>>
    /\ pair.res[1].ab
    /\ pair.a # pair.b

----------------------------------------------------------------------------
(* Visitor.visit (ast.py): the dispatch on the class of a node.            *)

\* type.mro(node.__class__) of the nodes visited: two classes of ast.py and
\* a class derived from one of them.
Mros ==
    { <<"Bold", "Node", "object">>,
      <<"PlainText", "Node", "object">>,
      <<"Emph", "Bold", "Node", "object">> }

\* Values handed to visit or kept as the tree: None, a node, a str.
PyNone == [kind |-> "none", mro |-> <<>>]
NotANode == [kind |-> "str", mro |-> <<"str", "object">>]
ANode(mro) == [kind |-> "node", mro |-> mro]
Visited == { ANode(m) : m \in Mros }

\* _lowername(cls)
lowername(cls) ==
    CASE cls = "Bold"      -> "bold"
      [] cls = "PlainText" -> "plaintext"
      [] cls = "Emph"      -> "emph"
      [] cls = "Node"      -> "node"
      [] OTHER             -> "object"

HandlerNames == {"bold", "plaintext", "emph", "node", "object"}

\* What getattr(self, 'visit_' + clsname, None) finds on a visitor: nothing,
\* a method, or an attribute that cannot be called.
AttrKinds == {"absent", "method", "data"}

\* The visitors: their class, the tree they were made with and their
\* visit_* attributes; text nodes have a method or nothing.
Visitors ==
    { [cls |-> c, tree |-> t, has |-> h] :
        c \in {"PrettyFormatter", "Latex"},
        t \in {PyNone, NotANode, ANode(<<"Bold", "Node", "object">>)},
        h \in { g \in [HandlerNames -> AttrKinds] : g["plaintext"] # "data" } }

\* The for loop of visit over the mro from its k-th class on: the name of
\* the first class with a callable visit_<name>, "" when the loop runs out.
RECURSIVE dispatch(_, _, _)
dispatch_MostGeneral(self, mro, k) ==
    LET H == { j \in k..Len(mro) : self.has[lowername(mro[j])] = "method" }
    IN  IF H = {} THEN "" ELSE lowername(mro[Max(H)])
dispatch(self, mro, k) ==
    IF k > Len(mro) THEN ""
    ELSE IF self.has[lowername(mro[k])] = "method" THEN lowername(mro[k])
    ELSE dispatch(self, mro, k + 1)

\* What a handler returns: every handler something of its own.
Returned(h, node) == <<"visit_", h, node.mro[1]>>

\* Visitor.visit(self, node): the handlers it called, and what it returned
\* or raised.
visit_SilentSkip(self, node) ==
    LET n == IF node = PyNone THEN self.tree ELSE node
        h == dispatch(self, n.mro, 1)
    IN  IF n = PyNone
        THEN [called |-> <<>>, rtn |-> <<>>, exc |-> "RuntimeError",
              msg |-> <<"no node or tree given!">>]
        ELSE IF n.kind # "node"
        THEN [called |-> <<>>, rtn |-> <<>>, exc |-> "RuntimeError",
              msg |-> <<n.mro[1], " is not a leyline node">>]
        ELSE IF h = ""
        THEN [called |-> <<>>, rtn |-> <<>>, exc |-> "", msg |-> <<>>]
        ELSE [called |-> <<h>>, rtn |-> Returned(h, n), exc |-> "", msg |-> <<>>]
visit(self, node) ==
    LET n == IF node = PyNone THEN self.tree ELSE node
        h == dispatch(self, n.mro, 1)
    IN  IF n = PyNone
        THEN [called |-> <<>>, rtn |-> <<>>, exc |-> "RuntimeError",
              msg |-> <<"no node or tree given!">>]
        ELSE IF n.kind # "node"
        THEN [called |-> <<>>, rtn |-> <<>>, exc |-> "RuntimeError",
              msg |-> <<n.mro[1], " is not a leyline node">>]
        ELSE IF h = ""
        THEN [called |-> <<>>, rtn |-> <<>>, exc |-> "AttributeError",
              msg |-> <<"could not find valid visitor method for ", n.mro[1],
                        " on ", self.cls>>]
        ELSE [called |-> <<h>>, rtn |-> Returned(h, n), exc |-> "", msg |-> <<>>]

\* Visitor.__init__(tree): a visitor is made.
Visitor_init ==
    /\ walk.st = "idle"
    /\ \E v \in Visitors : walk' = [st |-> "made", self |-> v]
    /\ UNCHANGED but_walk

\* visitor.visit(node), visitor.visit() or visitor.visit("text").
Visit ==
    /\ walk.st = "made"
    /\ \E node \in Visited \cup {PyNone, NotANode} :
          walk' = [st |-> "done", self |-> walk.self, node |-> node,
                   out |-> visit(walk.self, node)]
    /\ UNCHANGED but_walk

NextVisit == Visitor_init \/ Visit

SpecVisit == Init /\ [][NextVisit]_vars

\* The node a finished call was about, and the places in its hierarchy
\* whose class the visitor has a handler for.
Subject == IF walk.node = PyNone THEN walk.self.tree ELSE walk.node
Handled ==
    { k \in 1..Len(Subject.mro) : walk.self.has[lowername(Subject.mro[k])] = "method" }

\* C23: visit calls exactly one handler, the visit_<lowercased class name>
\* of the first class of the node's hierarchy, from the concrete class to
\* the base, that the visitor has a handler for, and returns its result; a
\* handler of a more general class is used only when no more specific class
\* has one.
C23_MostSpecificHandler ==
    (walk.st = "done" /\ Subject.kind = "node" /\ Handled # {}) =>
        LET k == CHOOSE i \in Handled : \A j \in Handled : i <= j
        IN  /\ walk.out.exc = ""
            /\ walk.out.called = <<lowername(Subject.mro[k])>>
            /\ walk.out.rtn = Returned(lowername(Subject.mro[k]), Subject)

\* A node of the derived class was visited by a visitor that has a handler
\* for its base class and for Node but none for the class itself.
C23_Witness ==
    /\ walk.st = "done"
    /\ Subject = ANode(<<"Emph", "Bold", "Node", "object">>)
    /\ Handled = {2, 3}

\* C24: when the visitor has a handler for no class of the node's
\* hierarchy, visit raises an error whose message names the node's class
\* and the visitor's class, and calls no handler; a value that is not a
\* node, or no node and no tree, raises an error and calls no handler.
C24_NoHandlerRaises ==
    walk.st = "done" =>
        /\ (Subject.kind = "node" /\ Handled = {}) =>
              /\ walk.out.exc = "AttributeError"
              /\ walk.out.called = <<>>
              /\ \E i, j \in 1..Len(walk.out.msg) :
                    /\ i # j
                    /\ walk.out.msg[i] = Subject.mro[1]
                    /\ walk.out.msg[j] = walk.self.cls
        /\ Subject.kind # "node" =>
              /\ walk.out.exc = "RuntimeError"
              /\ walk.out.called = <<>>

\* A node was visited by a visitor whose only visit_* attributes for the
\* node's classes cannot be called.
C24_Witness ==
    /\ walk.st = "done"
    /\ Subject.kind = "node"
    /\ Handled = {}
    /\ \E k \in 1..Len(Subject.mro) : walk.self.has[lowername(Subject.mro[k])] = "data"

----------------------------------------------------------------------------
(* ContextVisitor (context_visitor.py) and the renderers built on it:      *)
(* with blocks executed in named contexts, incorporeal macros evaluated in *)
(* the default one, rend blocks.  The with blocks bind one name, x; the    *)
(* macros are the expression x.                                            *)

\* The number of nodes one visitor is handed.
MaxVisits == 2

\* Values a name is bound to: an int, objects with a render_<target> method
\* and/or a render method, a PlainText node, a list of two PlainText nodes.
PyVal(kind, n, specific, generic) ==
    [kind |-> kind, n |-> n, specific |-> specific, generic |-> generic]
Unbound == PyVal("unbound", 0, "", FALSE)
NodeValue == PyVal("node", 1, "", FALSE)
ListValue == PyVal("list", 2, "", FALSE)
Bindable ==
    { PyVal("int", 1, "", FALSE), PyVal("obj", 0, "latex", FALSE), PyVal("obj", 0, "", TRUE),
      PyVal("obj", 0, "latex", TRUE), NodeValue, ListValue }

\* What a visit returns: None, a str (kept as its pieces) or a value.
RNone == [kind |-> "none", s |-> <<>>, val |-> Unbound]
RStr(s) == [kind |-> "str", s |-> s, val |-> Unbound]
RVal(v) == [kind |-> "value", s |-> <<>>, val |-> v]

\* The nodes visited.
WithNode(ctx, v) ==
    [node |-> "With", ctx |-> ctx, val |-> v, targets |-> {}, body |-> <<>>]
MacroNode ==
    [node |-> "IncorporealMacro", ctx |-> "", val |-> Unbound, targets |-> {},
     body |-> <<>>]
RenderForNode(targets, body) ==
    [node |-> "RenderFor", ctx |-> "", val |-> Unbound, targets |-> targets,
     body |-> body]

CtxNames == {"ctx", "meta"}
WithNodes == { WithNode(c, v) : c \in {"", "meta"}, v \in Bindable }
RenderForNodes ==
    { RenderForNode(t, <<n>>) :
        t \in {{"latex"}, {"notes"}},
        n \in {MacroNode, WithNode("", PyVal("int", 1, "", FALSE))} }

\* A dict used as a context: the binding of x, and whether exec or eval has
\* put __builtins__ into it.
Dict(x, b) == [x |-> x, builtins |-> b]

\* events.EVENTS_CTX as the module defines it: the event classes, no x.
EVENTS_CTX == Dict(Unbound, FALSE)

\* The classes of visitors and their renders attribute ("None": no target).
VisitorClasses == {"ContextVisitor", "AnsiFormatter", "Latex"}
renders(cls) == IF cls = "Latex" THEN "latex" ELSE "None"

\* self.contexts[name] of the defaultdict: the dict of that name, made and
\* stored when the name is missing.  W holds the dicts (by identity: their
\* place in W.dicts) and the visitor's contexts (0: no such key).
Lookup_Fresh(W, name) ==
    [W |-> [dicts |-> Append(W.dicts, Dict(Unbound, FALSE)),
            contexts |-> [W.contexts EXCEPT ![name] = Len(W.dicts) + 1]],
     id |-> Len(W.dicts) + 1]
Lookup(W, name) ==
    IF W.contexts[name] # 0 THEN [W |-> W, id |-> W.contexts[name]]
    ELSE [W |-> [dicts |-> Append(W.dicts, Dict(Unbound, FALSE)),
                 contexts |-> [W.contexts EXCEPT ![name] = Len(W.dicts) + 1]],
          id |-> Len(W.dicts) + 1]

\* How a handler ended; obj is what eval gave a macro (Unbound: nothing).
Done(W, rtn, inner) ==
    [W |-> W, rtn |-> rtn, exc |-> "", inner |-> inner, obj |-> Unbound]
Failed(W, exc, inner) ==
    [W |-> W, rtn |-> RNone, exc |-> exc, inner |-> inner, obj |-> Unbound]

\* ContextVisitor.visit_with; the renderers return '' after it.
visit_with_Default(self, W, node) ==
    LET L == Lookup(W, self.default)
    IN  Done([L.W EXCEPT !.dicts[L.id] = Dict(node.val, TRUE)],
             IF self.cls = "ContextVisitor" THEN RNone ELSE RStr(<<>>), <<>>)
visit_with(self, W, node) ==
    LET name == IF node.ctx # "" THEN node.ctx ELSE self.default
        L == Lookup(W, name)
    IN  Done([L.W EXCEPT !.dicts[L.id] = Dict(node.val, TRUE)],
             IF self.cls = "ContextVisitor" THEN RNone ELSE RStr(<<>>), <<>>)

\* ContextVisitor.visit_incorporealmacro: eval in the default context, then
\* render_<target>(visitor), render(target, visitor) or the object.
resolve_GenericFirst(self, obj) ==
    IF obj.generic THEN RStr(<<"render", renders(self.cls), self.cls>>)
    ELSE IF renders(self.cls) # "None" /\ obj.specific = renders(self.cls)
    THEN RStr(<<"render_", renders(self.cls), self.cls>>)
    ELSE RVal(obj)
resolve(self, obj) ==
    IF renders(self.cls) # "None" /\ obj.specific = renders(self.cls)
    THEN RStr(<<"render_", renders(self.cls), self.cls>>)
    ELSE IF obj.generic THEN RStr(<<"render", renders(self.cls), self.cls>>)
    ELSE RVal(obj)

\* visit of a PlainText node: its text.
PlainTextOf(k) == IF k = 1 THEN "n" ELSE "m"

\* AnsiFormatter.visit_incorporealmacro on what the base method gave.
Redispatch(n) ==
    IF n.kind = "str" THEN n
    ELSE IF n.val.kind = "node" THEN RStr(<<PlainTextOf(1)>>)
    ELSE IF n.val.kind = "list" THEN RStr(<<PlainTextOf(1), PlainTextOf(2)>>)
    ELSE RStr(<<>>)

visit_incorporealmacro(self, W, node) ==
    LET L == Lookup(W, self.default)
        V == [L.W EXCEPT !.dicts[L.id].builtins = TRUE]
        obj == V.dicts[L.id].x
    IN  IF obj = Unbound THEN Failed(V, "NameError", <<>>)
        ELSE IF self.cls = "AnsiFormatter"
        THEN [Done(V, Redispatch(resolve(self, obj)), <<>>) EXCEPT !.obj = obj]
        ELSE [Done(V, resolve(self, obj), <<>>) EXCEPT !.obj = obj]

\* self.visit(n) for a node of a body: a with block or a macro.
visit_inner(self, W, n) ==
    IF n.node = "With" THEN visit_with(self, W, n)
    ELSE visit_incorporealmacro(self, W, n)

\* The loop over node.body of a rend block, from its k-th node: the results
\* are added to a str, which raises TypeError for one that is no str.
RECURSIVE bodied_visit(_, _, _, _, _)
bodied_visit(self, W, body, k, acc) ==
    IF k > Len(body) THEN Done(W, RStr(acc.s), acc.inner)
    ELSE LET r == visit_inner(self, W, body[k])
             seen == Append(acc.inner, [node |-> body[k], rtn |-> r.rtn, exc |-> r.exc,
                                          obj |-> r.obj])
         IN  IF r.exc # "" THEN Failed(r.W, r.exc, seen)
             ELSE IF r.rtn.kind # "str" THEN Failed(r.W, "TypeError", seen)
             ELSE bodied_visit(self, r.W, body, k + 1,
                               [s |-> acc.s \o r.rtn.s, inner |-> seen])

\* visit_renderfor of Latex (the same in Notes and SSML) and of
\* AnsiFormatter (_bodied_visit); ContextVisitor has none.
visit_renderfor_Always(self, W, node) ==
    IF self.cls = "ContextVisitor" THEN Failed(W, "AttributeError", <<>>)
    ELSE bodied_visit(self, W, node.body, 1, [s |-> <<>>, inner |-> <<>>])
visit_renderfor(self, W, node) ==
    IF self.cls = "ContextVisitor" THEN Failed(W, "AttributeError", <<>>)
    ELSE IF self.cls = "Latex" /\ renders(self.cls) \notin node.targets
    THEN Done(W, RStr(<<>>), <<>>)
    ELSE bodied_visit(self, W, node.body, 1, [s |-> <<>>, inner |-> <<>>])

\* ContextVisitor.__init__(default=..., contexts=...): main.render_target
\* passes ns.contexts, {'ctx': EVENTS_CTX}, and no default; the tests pass
\* nothing.
\* defaultdict(dict, contexts) takes over the items of the mapping, the
\* dicts themselves.  The visitor made before it is gone; EVENTS_CTX stays.
ContextVisitor_init ==
    /\ \E cls \in VisitorClasses : \E default \in CtxNames :
       \E given \in {[n \in CtxNames |-> IF n = "ctx" /\ default = "ctx" THEN 1 ELSE 0],
                     [n \in CtxNames |-> 0]} :
          trav' = [st |-> "run",
                   dicts |-> <<IF trav.st = "idle" THEN EVENTS_CTX ELSE trav.dicts[1]>>,
                   self |-> [cls |-> cls, default |-> default],
                   contexts |-> given,
                   x0 |-> IF given[default] = 0 \/ trav.st = "idle" THEN Unbound
                          ELSE trav.dicts[1].x,
                   log |-> <<>>]
    /\ UNCHANGED but_trav

\* visitor.visit(node) with what the handler of the node's class did; kept
\* tells whether it left every environment as it was.
Visits(node, R) ==
    /\ trav.st = "run"
    /\ Len(trav.log) < MaxVisits
    /\ trav' = [trav EXCEPT
                  !.st = IF R.exc # "" THEN "raised" ELSE "run",
                  !.dicts = R.W.dicts,
                  !.contexts = R.W.contexts,
                  !.log = Append(@, [node |-> node, rtn |-> R.rtn, exc |-> R.exc,
                                     obj |-> R.obj, inner |-> R.inner,
                                     kept |-> R.W = [dicts |-> trav.dicts,
                                                     contexts |-> trav.contexts]])]
    /\ UNCHANGED but_trav

World == [dicts |-> trav.dicts, contexts |-> trav.contexts]

Visit_with ==
    /\ trav.st = "run"
    /\ \E node \in WithNodes : Visits(node, visit_with(trav.self, World, node))

Visit_incorporealmacro ==
    /\ trav.st = "run"
    /\ Visits(MacroNode, visit_incorporealmacro(trav.self, World, MacroNode))

Visit_renderfor ==
    /\ trav.st = "run"
    /\ \E node \in RenderForNodes : Visits(node, visit_renderfor(trav.self, World, node))

NextCtx == ContextVisitor_init \/ Visit_with \/ Visit_incorporealmacro \/ Visit_renderfor

SpecCtx == Init /\ [][NextCtx]_vars


\* The environment a with block names: its ctx, else the visitor's default.
TargetOf(self, node) == IF node.ctx # "" THEN node.ctx ELSE self.default

\* The step is the visit of a with block by the current visitor.
WithStep ==
    /\ trav.st = "run"
    /\ trav'.st = "run"
    /\ Len(trav'.log) = Len(trav.log) + 1
    /\ trav'.log[Len(trav'.log)].node.node = "With"

\* C25: visiting a with block executes its text in the environment named by
\* its ctx, or by the visitor's default name when the ctx is empty; that
\* environment is created when absent and kept when present, and no other
\* named environment is created or changed.
C25_WithTargetsOneEnvironment ==
    [][WithStep =>
         LET node == trav'.log[Len(trav'.log)].node
             name == TargetOf(trav.self, node)
         IN  /\ trav'.contexts[name] # 0
             /\ trav'.dicts[trav'.contexts[name]].x = node.val
             /\ IF trav.contexts[name] = 0
                THEN trav'.contexts[name] > Len(trav.dicts)
                ELSE trav'.contexts[name] = trav.contexts[name]
             /\ \A other \in CtxNames \ {name} :
                   /\ trav'.contexts[other] = trav.contexts[other]
                   /\ trav.contexts[other] # 0 =>
                         trav'.dicts[trav.contexts[other]] = trav.dicts[trav.contexts[other]]
             /\ \A id \in 1..Len(trav.dicts) :
                   id # trav.contexts[name] => trav'.dicts[id] = trav.dicts[id]]_vars

\* A with block naming "meta" was visited by a visitor whose default is
\* "ctx": "meta" exists with the binding and "ctx" was not made, after
\* another with block had bound the default environment of a visitor with
\* both environments.
C25_Witness ==
    /\ trav.st = "run"
    /\ Len(trav.log) = 2
    /\ trav.self.default = "ctx"
    /\ trav.log[1].node.node = "With" /\ trav.log[1].node.ctx = ""
    /\ trav.log[2].node.node = "With" /\ trav.log[2].node.ctx = "meta"
    /\ trav.contexts["meta"] # 0 /\ trav.contexts["ctx"] # 0
    /\ trav.dicts[trav.contexts["meta"]].x = trav.log[2].node.val
    /\ trav.dicts[trav.contexts["ctx"]].x = trav.log[1].node.val
    /\ trav.log[1].node.val # trav.log[2].node.val


\* The with blocks and macros a traversal has evaluated, in order: those
\* visited directly and those visited inside the bodies of rend blocks.
RECURSIVE Flat(_)
Flat(log) ==
    IF log = <<>> THEN <<>>
    ELSE LET e == log[Len(log)]
         IN  Flat(SubSeq(log, 1, Len(log) - 1)) \o
             (IF e.node.node = "RenderFor" THEN e.inner
              ELSE <<[node |-> e.node, rtn |-> e.rtn, exc |-> e.exc, obj |-> e.obj]>>)

\* The binding of x in the environment called name after the first k of the
\* evaluations ev: that of the last with block on it, else what it began as.
RECURSIVE BoundAfter(_, _, _, _, _)
BoundAfter(self, ev, k, name, began) ==
    IF k = 0 THEN began
    ELSE IF ev[k].node.node = "With" /\ TargetOf(self, ev[k].node) = name
    THEN ev[k].node.val
    ELSE BoundAfter(self, ev, k - 1, name, began)

\* C26: within one traversal a binding written by a with block stays in its
\* environment for all later visits, and a macro is evaluated against the
\* default environment as it stands when the macro is visited: it gets the
\* binding of the last earlier with block on the default environment,
\* whatever later with blocks or with blocks on other environments bind, and
\* a NameError when no earlier one and nothing at construction bound it.
C26_MacroSeesEarlierBindings ==
    trav.st # "idle" =>
      LET ev == Flat(trav.log)
      IN  /\ \A k \in 1..Len(ev) :
                ev[k].node.node = "IncorporealMacro" =>
                   LET x == BoundAfter(trav.self, ev, k - 1, trav.self.default, trav.x0)
                   IN  IF x = Unbound THEN ev[k].exc = "NameError"
                       ELSE ev[k].exc = "" /\ ev[k].obj = x
          /\ \A name \in CtxNames :
                (\E k \in 1..Len(ev) : ev[k].node.node = "With"
                                       /\ TargetOf(trav.self, ev[k].node) = name) =>
                   /\ trav.contexts[name] # 0
                   /\ trav.dicts[trav.contexts[name]].x =
                         BoundAfter(trav.self, ev, Len(ev), name, Unbound)

\* A with block bound the default environment and the macro visited next
\* got that binding.
C26_Witness ==
    /\ trav.st = "run"
    /\ Len(trav.log) = 2
    /\ trav.log[1].node.node = "With"
    /\ TargetOf(trav.self, trav.log[1].node) = trav.self.default
    /\ trav.log[2].node.node = "IncorporealMacro"
    /\ trav.log[2].obj = trav.log[1].node.val


\* What the methods of a bound object return: render_<target>(visitor) and
\* render(target, visitor).
CallSpecific(target, cls) == RStr(<<"render_", target, cls>>)
CallGeneric(target, cls) == RStr(<<"render", target, cls>>)

\* C27: the value of a macro is resolved by the first of these that
\* applies: (a) the visitor has a render target and the value has a
\* render_<target> method: the result of calling it with the visitor; (b)
\* the value has a render method: the result of calling it with the target
\* name and the visitor; (c) the value itself.  So a render method is not
\* used when the method of the target exists, and (a) is skipped by a
\* visitor without a target.  (What AnsiFormatter makes of a value left by
\* (c) is the subject of C28.)
C27_ResolutionOrder ==
    trav.st # "idle" =>
      LET ev == Flat(trav.log)
          cls == trav.self.cls
          target == renders(cls)
      IN  \A k \in 1..Len(ev) :
             (ev[k].node.node = "IncorporealMacro" /\ ev[k].exc = "") =>
                IF target # "None" /\ ev[k].obj.specific = target
                THEN ev[k].rtn = CallSpecific(target, cls)
                ELSE IF ev[k].obj.generic
                THEN ev[k].rtn = CallGeneric(target, cls)
                ELSE cls # "AnsiFormatter" => ev[k].rtn = RVal(ev[k].obj)

\* A Latex visitor evaluated a macro to an object that has render_latex and
\* render, and returned what render_latex gave.
C27_Witness ==
    /\ trav.st = "run"
    /\ trav.self.cls = "Latex"
    /\ Len(trav.log) = 2
    /\ trav.log[2].node.node = "IncorporealMacro"
    /\ trav.log[2].obj = PyVal("obj", 0, "latex", TRUE)
    /\ trav.log[2].rtn = CallSpecific("latex", "Latex")


\* The nodes of a value that is a node or a list of nodes, as the texts
\* their dispatch gives.
DispatchedTexts(v) ==
    IF v.kind = "node" THEN <<PlainTextOf(1)>> ELSE <<PlainTextOf(1), PlainTextOf(2)>>

\* C28: when the value of a macro is a tree node or a sequence of tree
\* nodes, the visitor dispatches on each of them in order and returns the
\* concatenation of the results, not the node(s).
C28_NodeValuesRedispatched ==
    trav.st # "idle" =>
      LET ev == Flat(trav.log)
      IN  \A k \in 1..Len(ev) :
             (/\ ev[k].node.node = "IncorporealMacro"
              /\ ev[k].exc = ""
              /\ ev[k].obj.kind \in {"node", "list"}) =>
                ev[k].rtn = RStr(DispatchedTexts(ev[k].obj))


\* C29: environment mutation is confined to the traversal that performs
\* it: with visitors constructed one after another from the same contexts
\* mapping, as main does per render target, what with blocks of one
\* traversal bind is not in the environments the next visitor starts with,
\* and the dict of the caller's mapping, the module-level EVENTS_CTX, is
\* never altered.
C29_MutationConfinedToTraversal ==
    trav.st # "idle" =>
       /\ trav.dicts[1].x = EVENTS_CTX.x
       /\ trav.x0 = Unbound


\* The visits of rend blocks by a renderer (a visitor with a handler for
\* them), and whether a visit went through the body.
RendVisits ==
    IF trav.st = "idle" \/ trav.self.cls = "ContextVisitor" THEN {}
    ELSE { k \in 1..Len(trav.log) : trav.log[k].node.node = "RenderFor" }
Processed(e) == Len(e.inner) > 0
Skipped(e) == e.inner = <<>> /\ e.kept /\ e.exc = "" /\ e.rtn = RStr(<<>>)

\* C30 as stated: a renderer processes the body of a rend block if and only
\* if its own render target is in the block's targets; otherwise the body
\* adds nothing to the output and nothing inside it is evaluated.
C30_BodyIffTargetListed ==
    \A k \in RendVisits :
       IF renders(trav.self.cls) \in trav.log[k].node.targets
       THEN Processed(trav.log[k])
       ELSE Skipped(trav.log[k])

\* C30 amended: a renderer that has a render target processes the body if
\* and only if that target is in the block's targets, and otherwise returns
\* '' and evaluates nothing inside it; AnsiFormatter, which has no render
\* target, processes the body of every rend block.
C30_TargetedRendererGuardsBody ==
    \A k \in RendVisits :
       IF renders(trav.self.cls) = "None" THEN Processed(trav.log[k])
       ELSE IF renders(trav.self.cls) \in trav.log[k].node.targets
            THEN Processed(trav.log[k])
            ELSE Skipped(trav.log[k])

\* A Latex visitor went through the body of a rend block for latex, which
\* bound x, and skipped one for notes.
C30_Witness ==
    /\ trav.st = "run"
    /\ trav.self.cls = "Latex"
    /\ Len(trav.log) = 2
    /\ trav.log[1].node.node = "RenderFor" /\ trav.log[1].node.targets = {"latex"}
    /\ Len(trav.log[1].inner) = 1 /\ trav.log[1].inner[1].node.node = "With"
    /\ trav.log[2].node.node = "RenderFor" /\ trav.log[2].node.targets = {"notes"}
    /\ Skipped(trav.log[2])

----------------------------------------------------------------------------
(* The attributes of the tokens the lexer emits.                           *)

\* C32: every token the lexer emits, the second and later DEDENT tokens of
\* one multi-level dedent and the DEDENTs flushed at the end of the input
\* included, carries a kind, a value, a line, a column >= 1 and a byte
\* offset.
C32_EveryTokenHasAllAttributes ==
    \A k \in 1..Len(out) :
       /\ out[k].type # "None"
       /\ out[k].lineno >= 1
       /\ out[k].column >= 1
       /\ out[k].lexpos >= 0


\* C37: in every state of the lexer the indentation stack is non-empty, its
\* bottom element is the empty string, and each element above the bottom
\* starts with and is strictly longer than the element below it; neither a
\* newline's indent or dedent, nor a bullet's push, nor the flush at the end
\* of the input pops the bottom element.
C37_IndentStackWellFormed ==
    /\ Len(indents) >= 1
    /\ indents[1] = <<>>
    /\ \A k \in 2..Len(indents) :
          /\ Len(indents[k]) > Len(indents[k - 1])
          /\ SubSeq(indents[k], 1, Len(indents[k - 1])) = indents[k - 1]

\* The lexer has closed a level and has two levels open above the bottom.
C37_Witness ==
    /\ Len(indents) = 3
    /\ \E k \in 1..Len(out) : out[k].type = "DEDENT"


----------------------------------------------------------------------------
(* The end of the token stream: token() called until it returns None, and  *)
(* called again after that.                                                *)

\* The longest text, in chunks, of a run that is continued past its end.
MaxEndChunks == 2

EndInputs ==
    { Concat(cs) : cs \in UNION { [1..n -> Chunks] : n \in 0..MaxEndChunks } }

\* A text whose second line is indented by a tab under a level opened by a
\* space: "Indentation level doesn't match".
Mismatched == <<NL, " ", "a", NL, TAB>>

\* Lexer.input(s)
InputEnd ==
    /\ status = "new"
    /\ \E s \in EndInputs \cup {Mismatched} : inp' = s
    /\ lexpos' = 0
    /\ status' = "lexing"
    /\ UNCHANGED <<lineno, indents, queue, last, beforelast, err, out, scanned, prior>>
    /\ UNCHANGED others

\* Lexer.token() called after it has returned None: the same code runs on
\* what the run left (the queue, the cursor at the end of the text, the
\* indentation stack).  The history of the scanner is no longer kept.
TokenAfterEnd ==
    /\ status = "done"
    /\ LET R == next_token(Cur)
       IN  /\ lexpos' = R.L.lexpos
           /\ lineno' = R.L.lineno
           /\ indents' = R.L.indents
           /\ queue' = R.L.queue
           /\ beforelast' = last
           /\ last' = IF R.err = NoErr THEN R.tok ELSE last
           /\ out' = IF R.err = NoErr /\ R.tok.type # "None" THEN Append(out, R.tok) ELSE out
           /\ err' = R.err
           /\ status' = IF R.err = NoErr THEN "done" ELSE "error"
    /\ UNCHANGED <<inp, scanned, prior, others>>

NextEnd == InputEnd \/ TokenReturn \/ TokenEnd \/ TokenRaise \/ TokenAfterEnd

SpecEnd == Init /\ [][NextEnd]_vars

\* What a run has left to deliver: the characters not yet scanned, the
\* open levels still to be closed and the tokens waiting in the queue (the
\* None put back at the end of the text counting less than a token).
RECURSIVE Waiting(_)
Waiting(q) ==
    IF q = <<>> THEN 0
    ELSE (IF Head(q).type = "None" THEN 1 ELSE 2) + Waiting(Tail(q))
Remaining == 3 * (Len(inp) - lexpos) + 2 * Len(indents) + Waiting(queue)

\* C38: for a finite input, calling token() again and again reaches the end
\* of the stream (or, for an input with a lexical error, the error) after
\* finitely many calls: every call that returns a token lowers what
\* remains of the characters to scan, the levels to close and the tokens in
\* the finite queue, which is never negative.  Every call after the first
\* end of the stream returns the end of the stream again and emits no
\* token.
C38_StreamEndsAndStaysEnded ==
    /\ [](Remaining >= 0)
    /\ [][(status = "lexing" /\ status' = "lexing") => Remaining' < Remaining]_vars
    /\ [](status = "done" => last = None /\ queue \in {<<>>, <<None>>})
    /\ [][status = "done" => status' = "done" /\ out' = out /\ last' = None]_vars

\* token() was called again after the end of a stream that ended with the
\* flush of an open level, and returned None again.
C38_Witness ==
    /\ status = "done"
    /\ beforelast = None
    /\ queue = <<>>
    /\ \E k \in 1..Len(out) : out[k].type = "DEDENT"


----------------------------------------------------------------------------
(* EventsVisitor (events.py): the traversal of a document collects its     *)
(* leaf nodes into events; Slide and Subslide.  The traversal is the       *)
(* sequence of its visits of leaves and incorporeal macros in source       *)
(* order, which is the order _bodied_visit reaches them in; a leaf is      *)
(* named by its place in that order.                                       *)

\* The number of leaves and macros of a document.
MaxLeaves == 4

\* The explicit indices a subslide macro is given.
SubslideIdx == -2..2

\* Event(), Sleep(): body [].  Slide(): body [[]], start [None], duration
\* [None], idx 0.  The scalar start and duration of the other events play
\* no part and are left empty.
NewEvent(type) ==
    IF type = "slide"
    THEN [type |-> type, idx |-> 0, body |-> << <<>> >>, start |-> <<"None">>,
          duration |-> <<"None">>]
    ELSE [type |-> type, idx |-> 0, body |-> <<>>, start |-> <<>>, duration |-> <<>>]

\* The while loop of Slide.append.
RECURSIVE Padded(_)
Padded(e) ==
    IF Len(e.body) < e.idx + 1
    THEN Padded([e EXCEPT !.body = Append(@, <<>>), !.start = Append(@, "None"),
                          !.duration = Append(@, "None")])
    ELSE e

\* The place of seq[i] of a Python list of length n, 0 when out of range.
PyIndex(i, n) == IF i >= 0 THEN (IF i < n THEN i + 1 ELSE 0)
                 ELSE (IF n + i >= 0 THEN n + i + 1 ELSE 0)

\* Slide.append appending to the last subslide whatever idx is.
Slide_append_ToLast(e, node) ==
    [e |-> [e EXCEPT !.body[Len(e.body)] = Append(@, node)], exc |-> ""]

\* Slide.append: pad, then self.body[self.idx].append(node), which raises
\* IndexError for an idx below -len(body).
Slide_append(e, node) ==
    LET p == Padded(e)
        k == PyIndex(p.idx, Len(p.body))
    IN  IF k = 0 THEN [e |-> p, exc |-> "IndexError"]
        ELSE [e |-> [p EXCEPT !.body[k] = Append(@, node)], exc |-> ""]

\* Event.append
Event_append(e, node) == [e |-> [e EXCEPT !.body = Append(@, node)], exc |-> ""]

\* The places of the Slides in events.
Slides(events) == { k \in 1..Len(events) : events[k].type = "slide" }

\* Subslide.render that also makes the subslide the current event.
Subslide_render_Appends(events, sub) ==
    IF Slides(events) = {} THEN [events |-> events, exc |-> "ValueError"]
    ELSE LET k == Max(Slides(events))
         IN  [events |-> Append([events EXCEPT ![k].idx =
                                    IF sub.given THEN sub.idx ELSE @ + 1],
                                NewEvent("subslide")),
              exc |-> ""]

\* Subslide.render changing the first Slide of visitor.events.
Subslide_render_FirstSlide(events, sub) ==
    IF Slides(events) = {} THEN [events |-> events, exc |-> "ValueError"]
    ELSE LET k == Min(Slides(events))
         IN  [events |-> [events EXCEPT ![k].idx =
                             IF sub.given THEN sub.idx ELSE @ + 1],
              exc |-> ""]

\* Subslide.render on a visitor with events: the last Slide of
\* visitor.events gets idx + 1, or the idx the Subslide was given.
Subslide_render(events, sub) ==
    IF Slides(events) = {} THEN [events |-> events, exc |-> "ValueError"]
    ELSE LET k == Max(Slides(events))
         IN  [events |-> [events EXCEPT ![k].idx =
                             IF sub.given THEN sub.idx ELSE @ + 1],
              exc |-> ""]

\* EventsVisitor.__init__: events holds the initial event, Event() unless
\* one is given (here a Slide()).
EventsVisitor_init ==
    /\ evis.st = "idle"
    /\ \E type \in {"event", "slide"} :
          evis' = [st |-> "run", events |-> <<NewEvent(type)>>, log |-> <<>>]
    /\ UNCHANGED but_evis

\* What a visit adds to the history: the kind of node, the place of the
\* current event and its idx when the visit began, and the Subslide made.
Entry(kind, sub) ==
    [kind |-> kind, cur |-> Len(evis.events),
     idx |-> evis.events[Len(evis.events)].idx, sub |-> sub]
NoSub == [given |-> FALSE, idx |-> 0]

Visiting == evis.st = "run" /\ Len(evis.log) < MaxLeaves

\* visit_node on a leaf: self.current_event.append(node).
Visit_node ==
    /\ Visiting
    /\ LET cur == Len(evis.events)
           e == evis.events[cur]
           node == Len(evis.log) + 1
           r == IF e.type = "slide" THEN Slide_append(e, node) ELSE Event_append(e, node)
       IN  evis' = [evis EXCEPT !.events[cur] = r.e,
                                !.st = IF r.exc = "" THEN "run" ELSE r.exc,
                                !.log = Append(@, Entry("leaf", NoSub))]
    /\ UNCHANGED but_evis

\* An incorporeal macro that evaluates to a new Event, Slide or Sleep:
\* ContextVisitor.visit_incorporealmacro calls its render(None, visitor),
\* Event.render, which sets visitor.current_event.
Visit_event ==
    /\ Visiting
    /\ \E type \in {"event", "slide", "sleep"} :
          evis' = [evis EXCEPT !.events = Append(@, NewEvent(type)),
                               !.log = Append(@, Entry(type, NoSub))]
    /\ UNCHANGED but_evis

\* An incorporeal macro that evaluates to a Subslide: Subslide.render.
Visit_subslide ==
    /\ Visiting
    /\ \E sub \in {NoSub} \cup {[given |-> TRUE, idx |-> i] : i \in SubslideIdx} :
          LET r == Subslide_render(evis.events, sub)
          IN  evis' = [evis EXCEPT !.events = r.events,
                                   !.st = IF r.exc = "" THEN "run" ELSE r.exc,
                                   !.log = Append(@, Entry("subslide", sub))]
    /\ UNCHANGED but_evis

\* An incorporeal macro that evaluates to a value without render methods:
\* the value is returned and the events are left alone.
Visit_value ==
    /\ Visiting
    /\ evis' = [evis EXCEPT !.log = Append(@, Entry("value", NoSub))]
    /\ UNCHANGED but_evis

NextEvents == EventsVisitor_init \/ Visit_node \/ Visit_event \/ Visit_subslide \/ Visit_value

SpecEvents == Init /\ [][NextEvents]_vars


\* The members of a set of numbers in increasing order.
RECURSIVE Ascending(_)
Ascending(S) == IF S = {} THEN <<>> ELSE <<Min(S)>> \o Ascending(S \ {Min(S)})

\* The leaves appended while events[c] was the current event: those whose
\* visit returned.
LeavesOf(c) ==
    { k \in 1..Len(evis.log) :
        /\ evis.log[k].kind = "leaf"
        /\ evis.log[k].cur = c
        /\ ~(k = Len(evis.log) /\ evis.st = "IndexError") }

\* The macros, in order, that evaluated to an Event of one of the kinds.
MacrosOf(kinds) == SelectSeq(evis.log, LAMBDA v : v.kind \in kinds)

\* The elements of a list.
Members(s) == { s[i] : i \in 1..Len(s) }

\* All the nodes of a Slide's subslide bodies.
RECURSIVE Joined(_)
Joined(bodies) == IF bodies = <<>> THEN <<>> ELSE Head(bodies) \o Joined(Tail(bodies))

SubslideStep ==
    /\ evis.st = "run"
    /\ evis'.st # "idle"
    /\ Len(evis'.log) = Len(evis.log) + 1
    /\ evis'.log[Len(evis'.log)].kind = "subslide"

\* Where in the visits events[c] was appended (0: the initial event), and
\* the subslide macros visited from then to the next slide macro.
RECURSIVE MacroPos(_, _)
MacroPos(c, k) ==
    IF c = 1 THEN 0
    ELSE IF evis.log[k].kind \in {"event", "slide", "sleep"}
    THEN (IF c = 2 THEN k ELSE MacroPos(c - 1, k + 1))
    ELSE MacroPos(c, k + 1)
SubslidesOf(c) ==
    LET from == IF c = 1 THEN 0 ELSE MacroPos(c, 1)
        later == { k \in (from + 1)..Len(evis.log) : evis.log[k].kind = "slide" }
        to == IF later = {} THEN Len(evis.log) ELSE Min(later) - 1
    IN  { k \in (from + 1)..to : evis.log[k].kind = "subslide" }

\* C33: rendering a Subslide on a visitor that collects events changes
\* only the idx of the most recent Slide in visitor.events, to that idx
\* plus one or to the idx the Subslide was given; with no Slide in
\* visitor.events it raises ValueError and changes nothing; the Subslide is
\* never appended to visitor.events.  So a Slide followed by k subslide
\* macros, none with an index, has idx k.
C33_SubslideMovesLastSlideOnly ==
    /\ [][SubslideStep =>
            LET sub == evis'.log[Len(evis'.log)].sub
                on == Slides(evis.events)
            IN  IF on = {}
                THEN evis'.st = "ValueError" /\ evis'.events = evis.events
                ELSE /\ evis'.st = "run"
                     /\ Len(evis'.events) = Len(evis.events)
                     /\ \A c \in 1..Len(evis.events) :
                           evis'.events[c] =
                              IF c # Max(on) THEN evis.events[c]
                              ELSE [evis.events[c] EXCEPT !.idx =
                                       IF sub.given THEN sub.idx ELSE @ + 1]]_vars
    /\ [](evis.st # "idle" =>
            \A c \in Slides(evis.events) :
               (\A k \in SubslidesOf(c) : ~evis.log[k].sub.given) =>
                  evis.events[c].idx = Cardinality(SubslidesOf(c)))

\* Two subslide macros without index followed the second of two slide
\* macros: the last Slide has idx 2, the Slide before it idx 0, and events
\* holds the initial event and the two Slides.
C33_Witness ==
    /\ evis.st = "run"
    /\ Len(evis.log) = 4
    /\ evis.log[3].kind = "subslide" /\ evis.log[4].kind = "subslide"
    /\ Len(evis.events) = 3
    /\ evis.events[2].type = "slide" /\ evis.events[2].idx = 0
    /\ evis.events[3].type = "slide" /\ evis.events[3].idx = 2


\* The step is a leaf visit that Slide.append of the current Slide returned
\* from.
SlideAppendStep ==
    /\ evis.st = "run"
    /\ evis'.st = "run"
    /\ Len(evis'.log) = Len(evis.log) + 1
    /\ evis'.log[Len(evis'.log)].kind = "leaf"
    /\ evis.events[Len(evis.events)].type = "slide"

MaxOps == 3

K(t, v, items) == [t |-> t, v |-> v, items |-> items]
El(t, v) == [t |-> t, v |-> v]
KeyA == K("str", <<97>>, <<>>)
KeyAccent == K("str", <<233>>, <<>>)
KeyBytes == K("bytes", <<97>>, <<>>)
KeyPair == K("tuple", <<>>, <<El("str", <<97>>), El("str", <<233>>)>>)
KeyMixed == K("tuple", <<>>, <<El("str", <<97>>), El("bytes", <<98>>)>>)
KeyEmpty == K("tuple", <<>>, <<>>)
KeyInt == K("int", <<1>>, <<>>)
KeyIntTuple == K("tuple", <<>>, <<El("int", <<1>>)>>)
KeyList == K("list", <<>>, <<El("str", <<97>>)>>)
KeyRange == K("range", <<>>, <<>>)
KeyNone == K("NoneType", <<>>, <<>>)
HashKeys == {KeyA, KeyAccent, KeyBytes, KeyPair, KeyMixed, KeyEmpty, KeyInt,
             KeyIntTuple, KeyList, KeyRange, KeyNone}
ItemKeys == {KeyA, KeyPair, KeyMixed}

\* str.encode(): UTF-8 of code points below 2048
RECURSIVE Encode(_)
Encode(v) ==
    IF v = <<>> THEN <<>>
    ELSE (IF Head(v) < 128 THEN <<Head(v)>>
          ELSE <<192 + (Head(v) \div 64), 128 + (Head(v) % 64)>>) \o Encode(Tail(v))

Md5(b) == [md5 |-> b]
NoDigest == [md5 |-> <<-1>>]

\* dict operations
EmptyDict == [x \in {} |-> x]
Put(D, k, v) == [x \in DOMAIN D \cup {k} |-> IF x = k THEN v ELSE D[x]]
Del(D, k) == [x \in DOMAIN D \ {k} |-> D[x]]
Updated(D, E) == [x \in DOMAIN D \cup DOMAIN E |-> IF x \in DOMAIN E THEN E[x] ELSE D[x]]

\* collections.abc.Sequence among the key types, and the keys a dict takes
IsSequence(key) == key.t \in {"tuple", "list", "range"}
Hashable(key) == key.t # "list"

\* the for loop of hash over the elements of a Sequence key: the bytes fed
\* to the md5, or the element TypeError is raised at.  The second test is
\* for str again, as in the source, so a bytes element reaches the else.
RECURSIVE HashElements(_)
HashElements(items) ==
    IF items = <<>> THEN [b |-> <<>>, exc |-> ""]
    ELSE LET k == Head(items)
         IN  IF k.t = "str"
             THEN LET r == HashElements(Tail(items))
                  IN  [b |-> Encode(k.v) \o r.b, exc |-> r.exc]
             ELSE IF k.t = "str"
             THEN LET r == HashElements(Tail(items))
                  IN  [b |-> k.v \o r.b, exc |-> r.exc]
             ELSE [b |-> <<>>, exc |-> "TypeError"]

\* AssetsCache.hash(key) with _hashes = hashes: the digest or the
\* exception, and _hashes afterwards.
hash(hashes, key) ==
    IF ~Hashable(key) THEN [h |-> NoDigest, exc |-> "TypeError", hashes |-> hashes]
    ELSE IF key \in DOMAIN hashes THEN [h |-> hashes[key], exc |-> "", hashes |-> hashes]
    ELSE LET r == IF key.t = "str" THEN [b |-> Encode(key.v), exc |-> ""]
                  ELSE IF key.t = "bytes" THEN [b |-> key.v, exc |-> ""]
                  ELSE IF IsSequence(key) THEN HashElements(key.items)
                  ELSE [b |-> <<>>, exc |-> "TypeError"]
         IN  IF r.exc # "" THEN [h |-> NoDigest, exc |-> r.exc, hashes |-> hashes]
             ELSE [h |-> Md5(r.b), exc |-> "", hashes |-> Put(hashes, key, Md5(r.b))]

\* AssetsCache.dump: the cache file holds cache and sources.
dump(a) == [a EXCEPT !.disk = [exists |-> TRUE, cache |-> a.cache, sources |-> a.sources]]
Dumped(a) == IF a.dump_mutations THEN dump(a) ELSE a

\* AssetsCache.load
load(a) ==
    IF ~a.disk.exists THEN a
    ELSE [a EXCEPT !.cache = Updated(@, a.disk.cache),
                   !.sources = Updated(@, a.disk.sources)]

Fine(a) == [a |-> a, exc |-> ""]
Raised(a, exc) == [a |-> a, exc |-> exc]

\* the srcfile setter: _srcfile is assigned before the file is opened.
srcfile_setter(a, value) ==
    LET b == [a EXCEPT !.srcfile = value]
    IN  IF value \notin DOMAIN a.src THEN Raised(b, "FileNotFoundError")
        ELSE LET h == Md5(a.src[value])
             IN  Fine(Dumped([b EXCEPT !.srchash = h, !.sources = Put(@, value, h)]))

\* AssetsCache.__setitem__
NewEntry == [file |-> "", srcs |-> EmptyDict]
setitem(a, key, value) ==
    LET r == hash(a.hashes, key)
        b == [a EXCEPT !.hashes = r.hashes]
    IN  IF r.exc # "" THEN Raised(b, r.exc)
        ELSE LET curr == IF r.h \in DOMAIN a.cache THEN a.cache[r.h] ELSE NewEntry
                 set == [file |-> value, srcs |-> Put(curr.srcs, a.srcfile, a.srchash)]
             IN  Fine(Dumped([b EXCEPT !.cache = Put(@, r.h, set)]))

\* AssetsCache.__delitem__
delitem(a, key) ==
    LET r == hash(a.hashes, key)
        b == [a EXCEPT !.hashes = r.hashes]
    IN  IF r.exc # "" THEN Raised(b, r.exc)
        ELSE IF r.h \notin DOMAIN a.cache THEN Raised(b, "KeyError")
        ELSE Fine(Dumped([b EXCEPT !.cache = Del(@, r.h)]))

\* the loop of update: self[k] = v for each item, stopping at the first
\* that raises.
RECURSIVE SetAll(_, _)
SetAll(a, items) ==
    IF items = <<>> THEN Fine(a)
    ELSE LET r == setitem(a, Head(items).key, Head(items).value)
         IN  IF r.exc # "" THEN r ELSE SetAll(r.a, Tail(items))

\* AssetsCache.update: _dump_mutations is switched off for the loop and
\* restored after it; nothing restores it when the loop raises.
update(a, items) ==
    LET orig == a.dump_mutations
        r == SetAll([a EXCEPT !.dump_mutations = IF orig THEN FALSE ELSE @], items)
    IN  IF r.exc # "" THEN r
        ELSE LET b == [r.a EXCEPT !.dump_mutations = orig]
             IN  Fine(IF orig /\ items # <<>> THEN dump(b) ELSE b)

\* AssetsCache.clear
clear(a) == Fine(Dumped([a EXCEPT !.cache = EmptyDict]))

\* AssetsCache.gc: an entry is bad when its file is missing or when, after
\* the sources whose hash differs from self.sources.get(s, '') are deleted
\* from it, it has no source left; the bad ones are popped and their files
\* removed.
FreshSources(a, srcs) ==
    { s \in DOMAIN srcs : s \in DOMAIN a.sources /\ srcs[s] = a.sources[s] }
Bad(a) ==
    { k \in DOMAIN a.cache :
         \/ a.cache[k].file \notin a.files
         \/ FreshSources(a, a.cache[k].srcs) = {} }
gc(a) ==
    LET bad == Bad(a)
        pruned == [k \in DOMAIN a.cache \ bad |->
                     [a.cache[k] EXCEPT !.srcs =
                        [s \in FreshSources(a, a.cache[k].srcs) |-> @[s]]]]
    IN  Fine(Dumped([a EXCEPT !.cache = pruned,
                              !.files = @ \ { a.cache[k].file : k \in bad }]))


\* the file system and arguments an AssetsCache is constructed on
Sources0 == [x \in {"s", "t"} |-> <<1>>]
NoDisk == [exists |-> FALSE, cache |-> EmptyDict, sources |-> EmptyDict]
DiskOf(h) ==
    [exists |-> TRUE,
     cache |-> Put(EmptyDict, Md5(<<97>>), [file |-> "f", srcs |-> Put(EmptyDict, "s", h)]),
     sources |-> Put(EmptyDict, "s", h)]
Disks0 == {NoDisk, DiskOf(Md5(<<1>>)), DiskOf(Md5(<<2>>))}
Item(key, value) == [key |-> key, value |-> value]
UpdateItems ==
    { <<>>, <<Item(KeyA, "f")>>, <<Item(KeyA, "g"), Item(KeyPair, "f")>>,
      <<Item(KeyPair, "g"), Item(KeyInt, "f")>>, <<Item(KeyMixed, "f")>> }

NoPre == [cache |-> EmptyDict, files |-> {}]
Last(op, exc, key, h, pre) == [op |-> op, exc |-> exc, key |-> key, h |-> h, pre |-> pre]

\* AssetsCache.__init__(cachefile, srcfile, *args): load, the srcfile
\* assignment and update run with _dump_mutations off; then it is switched
\* on and the file is written.  An exception leaves no object.
AssetsCache_init ==
    /\ assets.st = "idle"
    /\ \E files \in {{}, {"f"}}, disk \in Disks0, value \in {"s", "u"},
          items \in UpdateItems :
          LET a0 == [st |-> "live", dump_mutations |-> FALSE, srcfile |-> "None",
                     srchash |-> NoDigest, cache |-> EmptyDict, sources |-> EmptyDict,
                     hashes |-> EmptyDict, disk |-> disk, files |-> files,
                     src |-> Sources0, n |-> 0,
                     last |-> Last("init", "", KeyNone, NoDigest, NoPre)]
              r1 == srcfile_setter(load(a0), value)
              r2 == IF r1.exc # "" THEN r1 ELSE update(r1.a, items)
          IN  assets' = IF r2.exc # ""
                        THEN [r2.a EXCEPT !.st = "failed", !.last.exc = r2.exc]
                        ELSE dump([r2.a EXCEPT !.dump_mutations = TRUE])
    /\ UNCHANGED but_assets

Live == assets.st = "live" /\ assets.n < MaxOps

\* the object after a call: r the outcome of the method
After(r, op, key, h, pre) ==
    [r.a EXCEPT !.n = @ + 1, !.last = Last(op, r.exc, key, h, pre)]

Op_setitem ==
    /\ Live
    /\ \E key \in ItemKeys, value \in {"f", "g"} :
          assets' = After(setitem(assets, key, value), "setitem", key, NoDigest, NoPre)
    /\ UNCHANGED but_assets

Op_delitem ==
    /\ Live
    /\ \E key \in ItemKeys :
          assets' = After(delitem(assets, key), "delitem", key, NoDigest, NoPre)
    /\ UNCHANGED but_assets

Op_update ==
    /\ Live
    /\ \E items \in UpdateItems :
          assets' = After(update(assets, items), "update", KeyNone, NoDigest, NoPre)
    /\ UNCHANGED but_assets

Op_clear ==
    /\ Live
    /\ assets' = After(clear(assets), "clear", KeyNone, NoDigest, NoPre)
    /\ UNCHANGED but_assets

Op_gc ==
    /\ Live
    /\ assets' = After(gc(assets), "gc", KeyNone, NoDigest,
                       [cache |-> assets.cache, files |-> assets.files])
    /\ UNCHANGED but_assets

Op_srcfile ==
    /\ Live
    /\ \E value \in {"s", "t", "u"} :
          assets' = After(srcfile_setter(assets, value), "srcfile", KeyNone, NoDigest, NoPre)
    /\ UNCHANGED but_assets

Op_hash ==
    /\ Live
    /\ \E key \in HashKeys :
          LET r == hash(assets.hashes, key)
          IN  assets' = After(Raised([assets EXCEPT !.hashes = r.hashes], r.exc),
                              "hash", key, r.h, NoPre)
    /\ UNCHANGED but_assets

\* the renderers and the author, between two calls: an asset file is
\* written or removed, a source file is edited.
WriteFile ==
    /\ Live
    /\ \E f \in {"f", "g"} \ assets.files :
          assets' = [assets EXCEPT !.files = @ \cup {f}, !.n = @ + 1,
                                   !.last = Last("write", "", KeyNone, NoDigest, NoPre)]
    /\ UNCHANGED but_assets

RemoveFile ==
    /\ Live
    /\ \E f \in assets.files :
          assets' = [assets EXCEPT !.files = @ \ {f}, !.n = @ + 1,
                                   !.last = Last("remove", "", KeyNone, NoDigest, NoPre)]
    /\ UNCHANGED but_assets

EditSource ==
    /\ Live
    /\ \E s \in DOMAIN assets.src :
          assets' = [assets EXCEPT !.src[s] = IF @ = <<1>> THEN <<2>> ELSE <<1>>,
                                   !.n = @ + 1,
                                   !.last = Last("edit", "", KeyNone, NoDigest, NoPre)]
    /\ UNCHANGED but_assets

NextAssets ==
    \/ AssetsCache_init
    \/ Op_setitem \/ Op_delitem \/ Op_update \/ Op_clear \/ Op_gc \/ Op_srcfile \/ Op_hash
    \/ WriteFile \/ RemoveFile \/ EditSource

SpecAssets == Init /\ [][NextAssets]_vars


\* C34: once constructed, after every call (returned or raised) the
\* cache file holds the cache and sources of memory, and write-through
\* (_dump_mutations) is on.
C34_FileReflectsMemory ==
    assets.st = "live" =>
       /\ assets.disk.exists
       /\ assets.disk.cache = assets.cache
       /\ assets.disk.sources = assets.sources
       /\ assets.dump_mutations

\* An entry is good in (cache, files) when its file exists and one of its
\* recorded sources has the hash self.sources holds for it.
GoodEntry(e, files) ==
    /\ e.file \in files
    /\ \E s \in DOMAIN e.srcs : s \in DOMAIN assets.sources /\ e.srcs[s] = assets.sources[s]

\* C35: after gc() returns, every entry left names a file that exists and
\* has a source whose stored hash is the current one; every entry that was
\* not so before the call is gone and its file deleted; every entry that
\* was is kept with its filename.
C35_GcLeavesOnlyGoodEntries ==
    (assets.st = "live" /\ assets.last.op = "gc" /\ assets.last.exc = "") =>
       /\ \A k \in DOMAIN assets.cache : GoodEntry(assets.cache[k], assets.files)
       /\ \A k \in DOMAIN assets.last.pre.cache :
             LET e == assets.last.pre.cache[k]
             IN  IF GoodEntry(e, assets.last.pre.files)
                 THEN k \in DOMAIN assets.cache /\ assets.cache[k].file = e.file
                 ELSE k \notin DOMAIN assets.cache /\ e.file \notin assets.files

\* The keys hash is to accept, and the bytes of such a key.
Allowed(key) ==
    \/ key.t \in {"str", "bytes"}
    \/ key.t = "tuple" /\ \A i \in 1..Len(key.items) : key.items[i].t \in {"str", "bytes"}
RECURSIVE BytesOf(_)
BytesOf(items) ==
    IF items = <<>> THEN <<>>
    ELSE (IF Head(items).t = "str" THEN Encode(Head(items).v) ELSE Head(items).v)
         \o BytesOf(Tail(items))

\* C36: hash(key) returns a digest, the same at every call, for a str, a
\* bytes value and a tuple of str and bytes values, and raises TypeError for
\* every other key.
C36_HashAcceptsStrBytesAndTuples ==
    (assets.st = "live" /\ assets.last.op = "hash") =>
       IF Allowed(assets.last.key)
       THEN /\ assets.last.exc = ""
            /\ assets.last.h = Md5(IF assets.last.key.t = "tuple"
                                   THEN BytesOf(assets.last.key.items)
                                   ELSE BytesOf(<<El(assets.last.key.t, assets.last.key.v)>>))
       ELSE assets.last.exc = "TypeError"

====
